---- MODULE Spec2Model ----
(***************************************************************************)
(* A model of the caching engine of egenome-libs.                          *)
(*                                                                         *)
(* EnhancedMemoryStore (memory store with TTL expiration, LRU eviction and *)
(* statistics) is modelled operation by operation.  Time is the value of   *)
(* Date.now(), a positive integer that the Tick action advances.  A call   *)
(* that runs without reaching an await is one atomic step; set() awaits    *)
(* evictToMakeSpace(), which awaits evict(), and is split at those awaits  *)
(* so that other calls interleave there.                                   *)
(*                                                                         *)
(* Representation:                                                         *)
(*   map        the Map<string, InMemoryEntry>: a function whose domain is *)
(*              the set of keys present; an entry carries value and the    *)
(*              metadata createdAt, expiresAt and sizeBytes (lastAccessedAt*)
(*              and accessCount are written by get() and read only by      *)
(*              getLfuKeys(); they are left out);                          *)
(*   lru        the doubly linked list between lruHead and lruTail, as the *)
(*              sequence of its nodes' keys, head (most recent) first;     *)
(*   keyToNode  the keys of the Map<string, LRUNode>;                      *)
(*   expiresAt  0 stands for undefined (Date.now() is never 0);            *)
(*   a value    a positive number; 0 stands for the result undefined.      *)
(* What a call returns is an operator of the state the call starts in      *)
(* (getReturn, setFails, evictOp(..).evictedKeys, ...).                    *)
(***************************************************************************)
EXTENDS Integers, Sequences, FiniteSets, TLC

\* ------------------------------------------------------------------ bounds
NumKeys == 2
MaxTime == 2
MaxCalls == 3
MaxPending == 1
MaxOps == 3
MaxInFlight == 2
MaxItems == 2
MaxRetries == 1
MaxInputs == 2
MaxClock == 2

\* ------------------------------------------------------- program constants
EvictBatch == 10

Keys == 1..NumKeys
Values == {7, 42}
MemoryBudgets == {0, 6}

\* SetOptions.ttlMs and the ttlMs of updateTtl(). For set(), 0 is ttlMs: 0 and
\* stands for a ttlMs left undefined as well: set() tests `options?.ttlMs ?`
\* and does not tell the two apart.
TtlMs == {0, 1, 2}

\* the counts evict() is called with
EvictCounts == {0, 1, 2}

VARIABLES
    now,            \* Date.now()
    maxMemoryBytes, \* config.maxMemoryBytes (0: no budget)
    map,
    lru,
    keyToNode,
    stats,
    pending,        \* the set() calls suspended at an await
    calls,          \* the number of calls made so far
    track,          \* history: per key, the last completed set()
    touchOrder,     \* history: present keys by last set() / get() hit, oldest first
    config,         \* MultiTierStore: populateL1OnL2Hit, writeThrough, writeBehind
    l1Cache,        \* the fast tier: per key the value held (0: none)
    l2Cache,        \* the durable tier, likewise
    writeBehindQueue, \* per key the value queued (0: no entry)
    writeBehindTimer, \* TRUE while the interval of the processor is set
    inflight,       \* the orchestrator's calls suspended at an await
    ops,            \* the number of orchestrator calls and flushes started
    last,           \* history: the call that returned last
    hist,           \* history: per key, what the claims below refer to
    options,        \* cacheItem: input.options, the same for every call
    cached,         \* cacheItem: the store given as input.store, per key (0: none)
    itemCalls,      \* the cacheItem calls suspended at an await
    fetches,        \* history: per key, the invocations of the fetcher so far
    results,        \* history: what the cacheItem calls returned, in order
    createdAt,      \* per key, when the store's value was written (0: none)
    clock,          \* Date.now() of the use-cases
    storeKind,      \* the class of input.store
    inval,          \* the cacheWithInvalidation call
    inputs,         \* the inputs of the cacheMultipleItems call, as their keys
    multi,          \* the cacheMultipleItems call
    opLog,          \* history: the last call of the memory store's methods
    imMap,          \* InMemoryStore: the Map<string, V>, per key (0: none)
    ping,           \* the ping() call of the memory store
    nsMap,          \* NamespacedStore: the Map of the inner InMemoryStore
    nsLog,          \* history: per namespace and key, the value last written through it
    nsCall          \* the mset() or mdel() of a NamespacedStore in progress

vars == <<now, maxMemoryBytes, map, lru, keyToNode, stats, pending, calls, track, touchOrder>>
mtvars == <<config, l1Cache, l2Cache, writeBehindQueue, writeBehindTimer, inflight, ops,
            last, hist>>
stvars == <<opLog, imMap, ping>>
nsvars == <<nsMap, nsLog, nsCall>>
ucvars == <<clock, storeKind, inval, inputs, multi, stvars, nsvars>>
civars == <<options, cached, itemCalls, fetches, results, createdAt, ucvars>>

\* ----------------------------------------------------------------- helpers
Min(a, b) == IF a < b THEN a ELSE b

SeqToSet(s) == {s[i] : i \in 1..Len(s)}

RemoveKey(m, key) == [k \in (DOMAIN m) \ {key} |-> m[k]]

PutKey(m, key, e) == [k \in (DOMAIN m) \cup {key} |-> IF k = key THEN e ELSE m[k]]

RECURSIVE Digits(_)
Digits(v) == IF v < 10 THEN 1 ELSE 1 + Digits(v \div 10)

\* JSON.stringify(value).length * 2, for a number value
calculateSize(value) == Digits(value) * 2

isExpired_strict(entry, t) == entry.expiresAt # 0 /\ entry.expiresAt < t
isExpired(entry, t) == entry.expiresAt # 0 /\ entry.expiresAt <= t

\* expiresAt of a new entry: options?.ttlMs ? now + options.ttlMs : undefined
newExpiresAt_noBase(t, ttlMs) == IF ttlMs # 0 THEN ttlMs ELSE 0
newExpiresAt(t, ttlMs) == IF ttlMs # 0 THEN t + ttlMs ELSE 0

\* ------------------------------------------------------- recency structure
removeNode(l, key) == SelectSeq(l, LAMBDA x : x # key)

addToHead(l, key) == <<key>> \o l

moveToHead_noUnlink(r, key) ==
    IF key \notin r.keyToNode
    THEN [lru |-> addToHead(r.lru, key), keyToNode |-> r.keyToNode \cup {key}]
    ELSE r
moveToHead(r, key) ==
    IF key \notin r.keyToNode
    THEN [lru |-> addToHead(r.lru, key), keyToNode |-> r.keyToNode \cup {key}]
    ELSE [lru |-> addToHead(removeNode(r.lru, key), key), keyToNode |-> r.keyToNode]

removeFromLRU_keepNode(r, key) ==
    IF key \in r.keyToNode
    THEN [lru |-> r.lru, keyToNode |-> r.keyToNode \ {key}]
    ELSE r
removeFromLRU(r, key) ==
    IF key \in r.keyToNode
    THEN [lru |-> removeNode(r.lru, key), keyToNode |-> r.keyToNode \ {key}]
    ELSE r

\* The store's data as one record, for the operators that transform it.
Store == [map |-> map, lru |-> lru, keyToNode |-> keyToNode, stats |-> stats]

Rec(st) == [lru |-> st.lru, keyToNode |-> st.keyToNode]

WithRec(st, r) == [st EXCEPT !.lru = r.lru, !.keyToNode = r.keyToNode]

\* map.delete(key); removeFromLRU(key)
dropEntry(st, key) ==
    WithRec([st EXCEPT !.map = RemoveKey(st.map, key)], removeFromLRU(Rec(st), key))

\* ------------------------------------------------------------------- evict
\* the loop condition of evict()
evictContinue_offByOne(cur, evicted, count) == cur >= 1 /\ evicted <= count
evictContinue(cur, evicted, count) == cur >= 1 /\ evicted < count

\* evict(count): the walk from lruTail.prev towards lruHead. l0 is the list
\* as it was when the walk started (a removed node keeps its prev pointer),
\* cur the position of `current` in it. Returns the store and evictedKeys.
RECURSIVE evictWalk(_, _, _, _, _)
evictWalk(st, l0, cur, evictedKeys, count) ==
    IF ~evictContinue(cur, Len(evictedKeys), count)
    THEN [st |-> st, evictedKeys |-> evictedKeys]
    ELSE LET key == l0[cur] IN
         IF key \in DOMAIN st.map
         THEN LET e == st.map[key]
                  st1 == dropEntry(st, key)
                  st2 == [st1 EXCEPT !.stats.keyCount = @ - 1,
                                     !.stats.memoryUsageBytes = @ - e.sizeBytes,
                                     !.stats.evictions = @ + 1]
              IN evictWalk(st2, l0, cur - 1, Append(evictedKeys, key), count)
         ELSE evictWalk(st, l0, cur - 1, evictedKeys, count)

evictOp(st, count) == evictWalk(st, st.lru, Len(st.lru), <<>>, count)

\* getLruKeys(count): the walk from lruTail.prev
lruStart(l) == Len(l)

RECURSIVE lruWalk(_, _, _, _)
lruWalk(l, cur, keys, count) ==
    IF cur >= 1 /\ Len(keys) < count
    THEN lruWalk(l, cur - 1, Append(keys, l[cur]), count)
    ELSE keys

getLruKeys(count) == lruWalk(lru, lruStart(lru), <<>>, count)

\* getStats(): { ...this.stats, hitRatio }, the ratio as <<numerator, denominator>>
hitRatio_perMiss(st) ==
    IF st.hits + st.misses > 0 THEN <<st.hits, st.misses + 1>> ELSE <<0, 1>>
hitRatio(st) ==
    IF st.hits + st.misses > 0 THEN <<st.hits, st.hits + st.misses>> ELSE <<0, 1>>

getStats ==
    [keyCount |-> stats.keyCount, memoryUsageBytes |-> stats.memoryUsageBytes,
     hits |-> stats.hits, misses |-> stats.misses, evictions |-> stats.evictions,
     expirations |-> stats.expirations, hitRatio |-> hitRatio(stats)]

\* ----------------------------------------------------------------- history
NoTrack == [on |-> FALSE, val |-> 0, t0 |-> 0, ttlMs |-> 0, refreshed |-> FALSE]

Untrack(tr, S) == [k \in Keys |-> IF k \in S THEN NoTrack ELSE tr[k]]

Touch(to, key) == Append(removeNode(to, key), key)

Restrict(to, S) == SelectSeq(to, LAMBDA x : x \in S)

Install(st) ==
    /\ map' = st.map
    /\ lru' = st.lru
    /\ keyToNode' = st.keyToNode
    /\ stats' = st.stats

\* The orchestrator before its first call, over empty tiers.
EmptyTier == [k \in Keys |-> 0]

NoCall ==
    [slot |-> 0, op |-> "none", key |-> 0, value |-> 0, pc |-> "done", got |-> 0,
     batch |-> EmptyTier, deleted |-> FALSE, reply |-> "ok", res |-> "none", ret |-> 0,
     l1Value |-> 0, l1Wrote |-> 0, l2Wrote |-> 0, l2Called |-> FALSE, queued |-> FALSE,
     warm |-> 0, queuedAtCall |-> FALSE, doomed |-> {}, stale |-> {}]

NoHist == [warm |-> EmptyTier, durable |-> EmptyTier, coalesced |-> EmptyTier]

MultiTierIdle ==
    /\ config = [populateL1OnL2Hit |-> TRUE, writeThrough |-> TRUE, writeBehind |-> FALSE]
    /\ l1Cache = EmptyTier
    /\ l2Cache = EmptyTier
    /\ writeBehindQueue = EmptyTier
    /\ writeBehindTimer = FALSE
    /\ inflight = {}
    /\ ops = 0
    /\ last = NoCall
    /\ hist = NoHist

\* cacheWithInvalidation has not been called
NoInval ==
    [pc |-> "idle", key |-> 0, invalidateAfterMs |-> 0, metaReply |-> "none",
     present |-> FALSE, age |-> 0, trueAge |-> 0, deleteReply |-> "none", item |-> 0,
     after |-> 0,
     res |-> "none", value |-> 0]

\* cacheMultipleItems has not been called
NoMulti ==
    [pc |-> "idle", res |-> "none", value |-> EmptyTier, errors |-> <<>>, successCount |-> 0]

\* No call of the memory store has been recorded
NoOp ==
    [op |-> "none", key |-> 0, ok |-> TRUE, value |-> 0, again |-> FALSE, first |-> {},
     held |-> {}, live |-> {},
     before |-> [keyCount |-> 0, memoryUsageBytes |-> 0, hits |-> 0, misses |-> 0,
                 evictions |-> 0, expirations |-> 0]]

\* ping() has not been called
NoPing ==
    [pc |-> "idle", set |-> <<>>, calls |-> 0, quiet |-> FALSE, before |-> <<>>,
     res |-> "none"]

\* NamespacedStore: strings are sequences of characters. The namespaces of
\* the wrappers over one inner store, and the keys their callers use.
Namespaces == {<<"a">>, <<"b", "a">>}

NsKeys == {<<"x">>, <<"y">>}

\* nothing has been written through any wrapper
NoNsLog == [ns \in Namespaces |-> [key \in NsKeys |-> 0]]

\* An empty InMemoryStore, and no call recorded
StoresIdle ==
    /\ opLog = NoOp
    /\ imMap = EmptyTier
    /\ ping = NoPing
    /\ nsMap = [k \in {} |-> 0]
    /\ nsLog = NoNsLog
    /\ nsCall = [pc |-> "idle"]

\* Neither wrapper of cacheItem has been called; the clock is at its start.
WrappersIdle ==
    /\ clock = 1
    /\ storeKind = "EnhancedMemoryStore"
    /\ inval = NoInval
    /\ inputs = <<>>
    /\ multi = NoMulti
    /\ StoresIdle

\* No cacheItem call has been made, over an empty store.
CacheItemIdle ==
    /\ options = [maxRetries |-> 0, defaultValue |-> 0, storeOnError |-> FALSE]
    /\ WrappersIdle
    /\ createdAt = EmptyTier
    /\ cached = EmptyTier
    /\ itemCalls = {}
    /\ fetches = EmptyTier
    /\ results = <<>>

\* -------------------------------------------------------------------- Init
Init ==
    /\ MultiTierIdle
    /\ CacheItemIdle
    /\ now = 1
    /\ maxMemoryBytes \in MemoryBudgets
    /\ map = [k \in {} |-> 0]
    /\ lru = <<>>
    /\ keyToNode = {}
    /\ stats = [keyCount |-> 0, memoryUsageBytes |-> 0, hits |-> 0, misses |-> 0,
                evictions |-> 0, expirations |-> 0]
    /\ pending = {}
    /\ calls = 0
    /\ track = [k \in Keys |-> NoTrack]
    /\ touchOrder = <<>>

\* ----------------------------------------------------------------- actions
Tick ==
    /\ now < MaxTime
    /\ now' = now + 1
    /\ UNCHANGED <<maxMemoryBytes, map, lru, keyToNode, stats, pending, calls, track, touchOrder>>
    /\ UNCHANGED <<mtvars, civars>>

\* An access that finds the entry expired removes and counts it; get() and
\* getWithMetadata() count a miss as well.
expire_keepEntry(st, key, countMiss) ==
    [st EXCEPT !.stats.expirations = @ + 1,
               !.stats.misses = IF countMiss THEN @ + 1 ELSE @]
expire(st, key, countMiss) ==
    LET st1 == dropEntry(st, key) IN
    [st1 EXCEPT !.stats.expirations = @ + 1,
                !.stats.misses = IF countMiss THEN @ + 1 ELSE @]

\* get(): the value returned (0: undefined)
getReturn(key) ==
    IF key \notin DOMAIN map THEN 0
    ELSE IF isExpired(map[key], now) THEN 0
    ELSE map[key].value

\* get(): the hit path
getHit(st, key, refreshTtl, t) ==
    LET e == st.map[key]
        e1 == IF refreshTtl /\ e.expiresAt # 0
              THEN [e EXCEPT !.expiresAt = t + (e.expiresAt - e.createdAt)]
              ELSE e
        st1 == [st EXCEPT !.map = PutKey(st.map, key, e1)]
        st2 == WithRec(st1, moveToHead(Rec(st1), key))
    IN [st2 EXCEPT !.stats.hits = @ + 1]

Get(key, refreshTtl) ==
    /\ IF key \notin DOMAIN map
       THEN /\ Install([Store EXCEPT !.stats.misses = @ + 1])
            /\ UNCHANGED <<track, touchOrder>>
       ELSE IF isExpired(map[key], now)
       THEN /\ Install(expire(Store, key, TRUE))
            /\ touchOrder' = Restrict(touchOrder, DOMAIN map')
            /\ UNCHANGED track
       ELSE /\ Install(getHit(Store, key, refreshTtl, now))
            /\ touchOrder' = Touch(touchOrder, key)
            /\ track' = IF refreshTtl /\ map[key].expiresAt # 0
                        THEN [track EXCEPT ![key].refreshed = TRUE]
                        ELSE track
    /\ UNCHANGED <<now, maxMemoryBytes, pending>>

\* set(): the entry stored and the statistics update, for the call p
storeEntry(st, p) ==
    LET sizeBytes == calculateSize(p.value)
        e == [value |-> p.value, createdAt |-> p.now,
              expiresAt |-> newExpiresAt(p.now, p.ttlMs), sizeBytes |-> sizeBytes]
        st1 == [st EXCEPT !.map = PutKey(st.map, p.key, e)]
        st2 == WithRec(st1, moveToHead(Rec(st1), p.key))
    IN [st2 EXCEPT !.stats.keyCount = IF p.hadExisting THEN @ ELSE @ + 1,
                   !.stats.memoryUsageBytes = @ + sizeBytes - p.existingSize]

\* set(): what the call reads before its first await
setCall(key, value, ttlMs) ==
    [key |-> key, value |-> value, ttlMs |-> ttlMs, now |-> now,
     hadExisting |-> key \in DOMAIN map,
     existingSize |-> IF key \in DOMAIN map THEN map[key].sizeBytes ELSE 0,
     pc |-> "evicting", lastLen |-> 0]

\* set(): the overwrite check; TRUE when the call returns the failure
setFails(key, overwrite) == key \in DOMAIN map /\ ~overwrite

\* set(): the condition for calling evictToMakeSpace
overBudget(p) ==
    /\ maxMemoryBytes # 0
    /\ stats.memoryUsageBytes + calculateSize(p.value) - p.existingSize > maxMemoryBytes

\* evictToMakeSpace(requiredBytes): the loop condition
aboveTarget(st, requiredBytes) ==
    st.stats.memoryUsageBytes > maxMemoryBytes - requiredBytes

Stored(p) ==
    /\ track' = [track EXCEPT ![p.key] =
                    [on |-> TRUE, val |-> p.value, t0 |-> p.now, ttlMs |-> p.ttlMs,
                     refreshed |-> FALSE]]
    /\ touchOrder' = Touch(touchOrder, p.key)

Evicted(keys) ==
    /\ track' = Untrack(track, SeqToSet(keys))
    /\ touchOrder' = Restrict(touchOrder, DOMAIN map')

\* set(): up to its return, or up to its first await
Set(key, value, ttlMs, overwrite) ==
    LET p == setCall(key, value, ttlMs) IN
    /\ IF setFails(key, overwrite)
       THEN UNCHANGED <<map, lru, keyToNode, stats, pending, track, touchOrder>>
       ELSE IF ~overBudget(p)
       THEN /\ Install(storeEntry(Store, p))
            /\ Stored(p)
            /\ UNCHANGED pending
       ELSE /\ Cardinality(pending) < MaxPending
            /\ IF aboveTarget(Store, calculateSize(value))
               THEN LET r == evictOp(Store, EvictBatch) IN
                    /\ Install(r.st)
                    /\ pending' = pending \cup {[p EXCEPT !.lastLen = Len(r.evictedKeys)]}
                    /\ Evicted(r.evictedKeys)
               ELSE /\ pending' = pending \cup {[p EXCEPT !.pc = "store"]}
                    /\ UNCHANGED <<map, lru, keyToNode, stats, track, touchOrder>>
    /\ UNCHANGED <<now, maxMemoryBytes>>

\* evictToMakeSpace() resumed after `await this.evict(10)`
SetEvictStep(p) ==
    /\ UNCHANGED <<calls, mtvars, civars>>
    /\ p \in pending
    /\ p.pc = "evicting"
    /\ IF p.lastLen # 0 /\ aboveTarget(Store, calculateSize(p.value))
       THEN LET r == evictOp(Store, EvictBatch) IN
            /\ Install(r.st)
            /\ pending' = (pending \ {p}) \cup {[p EXCEPT !.lastLen = Len(r.evictedKeys)]}
            /\ Evicted(r.evictedKeys)
       ELSE /\ pending' = (pending \ {p}) \cup {[p EXCEPT !.pc = "store"]}
            /\ UNCHANGED <<map, lru, keyToNode, stats, track, touchOrder>>
    /\ UNCHANGED <<now, maxMemoryBytes>>

\* set() resumed after `await this.evictToMakeSpace(sizeBytes)`
SetStore(p) ==
    /\ UNCHANGED <<calls, mtvars, civars>>
    /\ p \in pending
    /\ p.pc = "store"
    /\ Install(storeEntry(Store, p))
    /\ Stored(p)
    /\ pending' = pending \ {p}
    /\ UNCHANGED <<now, maxMemoryBytes>>

\* has(), getTtl(), sizeof(): an expired entry is removed and counted, and
\* nothing else changes
Probe(key) ==
    /\ IF key \in DOMAIN map /\ isExpired(map[key], now)
       THEN /\ Install(expire(Store, key, FALSE))
            /\ touchOrder' = Restrict(touchOrder, DOMAIN map')
       ELSE UNCHANGED <<map, lru, keyToNode, stats, touchOrder>>
    /\ UNCHANGED <<now, maxMemoryBytes, pending, track>>

\* has(): the value returned
hasReturn(key) == key \in DOMAIN map /\ ~isExpired(map[key], now)

Has(key) == Probe(key)

\* getTtl(): the value returned (0: undefined, else 1 + remaining ms)
getTtlReturn(key) ==
    IF key \notin DOMAIN map THEN 0
    ELSE IF isExpired(map[key], now) THEN 0
    ELSE IF map[key].expiresAt = 0 THEN 0
    ELSE 1 + (IF map[key].expiresAt - now > 0 THEN map[key].expiresAt - now ELSE 0)

GetTtl(key) == Probe(key)

\* sizeof(): the value returned (0: undefined)
sizeofReturn(key) ==
    IF key \notin DOMAIN map THEN 0
    ELSE IF isExpired(map[key], now) THEN 0
    ELSE map[key].sizeBytes

Sizeof(key) == Probe(key)

Delete(key) ==
    /\ IF key \notin DOMAIN map
       THEN UNCHANGED <<map, lru, keyToNode, stats, track, touchOrder>>
       ELSE LET st1 == dropEntry(Store, key) IN
            /\ Install([st1 EXCEPT !.stats.keyCount = @ - 1,
                                   !.stats.memoryUsageBytes = @ - map[key].sizeBytes])
            /\ track' = Untrack(track, {key})
            /\ touchOrder' = Restrict(touchOrder, DOMAIN map')
    /\ UNCHANGED <<now, maxMemoryBytes, pending>>

\* clear(): the store it leaves
clearOp_resetAll(st) ==
    [map |-> [k \in {} |-> 0], lru |-> <<>>, keyToNode |-> {},
     stats |-> [keyCount |-> 0, memoryUsageBytes |-> 0, hits |-> 0, misses |-> 0,
                evictions |-> 0, expirations |-> 0]]
clearOp(st) ==
    [map |-> [k \in {} |-> 0], lru |-> <<>>, keyToNode |-> {},
     stats |-> [keyCount |-> 0, memoryUsageBytes |-> 0, hits |-> st.stats.hits,
                misses |-> st.stats.misses, evictions |-> st.stats.evictions,
                expirations |-> st.stats.expirations]]

Clear ==
    /\ Install(clearOp(Store))
    /\ track' = Untrack(track, Keys)
    /\ touchOrder' = <<>>
    /\ UNCHANGED <<now, maxMemoryBytes, pending>>

GetWithMetadata(key) ==
    /\ IF key \notin DOMAIN map
       THEN /\ Install([Store EXCEPT !.stats.misses = @ + 1])
            /\ UNCHANGED touchOrder
       ELSE IF isExpired(map[key], now)
       THEN /\ Install(expire(Store, key, TRUE))
            /\ touchOrder' = Restrict(touchOrder, DOMAIN map')
       ELSE /\ Install([Store EXCEPT !.stats.hits = @ + 1])
            /\ UNCHANGED touchOrder
    /\ UNCHANGED <<now, maxMemoryBytes, pending, track>>

UpdateTtl(key, ttlMs) ==
    /\ IF key \notin DOMAIN map
       THEN UNCHANGED <<map, lru, keyToNode, stats, track, touchOrder>>
       ELSE IF isExpired(map[key], now)
       THEN /\ Install(expire(Store, key, FALSE))
            /\ touchOrder' = Restrict(touchOrder, DOMAIN map')
            /\ UNCHANGED track
       ELSE /\ map' = [map EXCEPT ![key].expiresAt = now + ttlMs]
            /\ track' = Untrack(track, {key})
            /\ UNCHANGED <<lru, keyToNode, stats, touchOrder>>
    /\ UNCHANGED <<now, maxMemoryBytes, pending>>

\* cleanup(): the entries the sweep removes
sweepable_strict(m, t) == {k \in DOMAIN m : m[k].expiresAt # 0 /\ m[k].expiresAt < t}
sweepable(m, t) == {k \in DOMAIN m : m[k].expiresAt # 0 /\ m[k].expiresAt <= t}

RECURSIVE sweep(_, _)
sweep(st, S) ==
    IF S = {} THEN st
    ELSE LET key == CHOOSE k \in S : TRUE
             st1 == dropEntry(st, key)
         IN sweep([st1 EXCEPT !.stats.keyCount = @ - 1,
                              !.stats.memoryUsageBytes = @ - st.map[key].sizeBytes,
                              !.stats.expirations = @ + 1],
                  S \ {key})

\* cleanup(): the number returned
cleanupReturn == Cardinality(sweepable(map, now))

Cleanup ==
    /\ Install(sweep(Store, sweepable(map, now)))
    /\ touchOrder' = Restrict(touchOrder, DOMAIN map')
    /\ UNCHANGED <<now, maxMemoryBytes, pending, track>>

Evict(count) ==
    LET r == evictOp(Store, count) IN
    /\ Install(r.st)
    /\ Evicted(r.evictedKeys)
    /\ UNCHANGED <<now, maxMemoryBytes, pending>>

\* a call of one of the store's methods
Call ==
    /\ calls < MaxCalls
    /\ calls' = calls + 1
    /\ UNCHANGED <<mtvars, civars>>

Next ==
    \/ Tick
    \/ Call /\ \E key \in Keys, refreshTtl \in BOOLEAN : Get(key, refreshTtl)
    \/ Call /\ \E key \in Keys, value \in Values, ttlMs \in TtlMs, overwrite \in BOOLEAN :
          Set(key, value, ttlMs, overwrite)
    \/ \E p \in pending : SetEvictStep(p)
    \/ \E p \in pending : SetStore(p)
    \/ Call /\ \E key \in Keys : Has(key)
    \/ Call /\ \E key \in Keys : Delete(key)
    \/ Call /\ Clear
    \/ Call /\ \E key \in Keys : GetWithMetadata(key)
    \/ Call /\ \E key \in Keys, ttlMs \in TtlMs : UpdateTtl(key, ttlMs)
    \/ Call /\ \E key \in Keys : GetTtl(key)
    \/ Call /\ \E key \in Keys : Sizeof(key)
    \/ Call /\ Cleanup
    \/ Call /\ \E count \in EvictCounts : Evict(count)

Spec == Init /\ [][Next]_vars

\* ------------------------------------------------------------------ claims
\* The entry of key has a TTL and the clock has reached its expiresAt.
TimeExpired(key) ==
    /\ key \in DOMAIN map
    /\ map[key].expiresAt # 0
    /\ now >= map[key].expiresAt

\* The deadline now < t0 + T of the last completed set() of key has not passed
\* (no deadline when ttlMs was undefined or 0).
BeforeDeadline(key) ==
    \/ track[key].ttlMs = 0
    \/ now < track[key].t0 + track[key].ttlMs

\* C1: once set(k, v) has returned success, get(k) returns v until the TTL
\* elapses or k is deleted, cleared, evicted, overwritten (or its TTL is
\* replaced by updateTtl), whatever was done to other keys in between.
C1_SetThenGet ==
    \A k \in Keys : (track[k].on /\ BeforeDeadline(k)) => getReturn(k) = track[k].val

\* C1 witness: key 1 was set, key 2 was set later and is the most recent one,
\* and get(1) still returns the value set.
C1_Witness ==
    /\ NumKeys >= 2
    /\ track[1].on /\ track[1].ttlMs # 0
    /\ track[2].on
    /\ lru = <<2, 1>>
    /\ stats.hits > 0
    /\ getReturn(1) = track[1].val

\* C2 as stated: for every ttlMs = T given to set(k, v) at t0, with no later
\* write, delete, eviction or TTL refresh of k, get(k) at t1 returns v iff
\* t1 < t0 + T.
C2_TtlAnyValue ==
    \A k \in Keys :
        (track[k].on /\ ~track[k].refreshed)
            => (getReturn(k) = track[k].val <=> now < track[k].t0 + track[k].ttlMs)

\* C2 amended: the same for every ttlMs = T > 0 (set() takes ttlMs = 0 as no
\* TTL: the entry never expires).
C2_TtlPositive ==
    \A k \in Keys :
        (track[k].on /\ track[k].ttlMs > 0 /\ ~track[k].refreshed)
            => (getReturn(k) = track[k].val <=> now < track[k].t0 + track[k].ttlMs)

\* C2 witness: a key set with a TTL whose deadline has passed, found expired by
\* an access and removed, so that get() returns undefined.
C2_Witness ==
    \E k \in Keys :
        /\ track[k].on /\ track[k].ttlMs > 0 /\ ~track[k].refreshed
        /\ now >= track[k].t0 + track[k].ttlMs
        /\ k \notin DOMAIN map
        /\ stats.expirations > 0
        /\ getReturn(k) = 0

\* an access of key: one of the calls that check the entry's expiry
\* (has, getTtl and sizeof are the step Probe)
Access(key) ==
    \/ \E refreshTtl \in BOOLEAN : Get(key, refreshTtl)
    \/ Probe(key)
    \/ GetWithMetadata(key)
    \/ \E ttlMs \in TtlMs : UpdateTtl(key, ttlMs)

\* a call that leaves alone the set() calls in progress and the record of the
\* completed ones: every access of an expired entry and every cleanup() is one
Reading == Call /\ UNCHANGED <<pending, track>>

\* a call that accesses key at a time its entry has expired
ExpiredAccess(key) == TimeExpired(key) /\ Reading /\ Access(key)

C4_Evict ==
    \A n \in EvictCounts :
        LET r == evictOp(Store, n)
            m == Min(n, Cardinality(DOMAIN map))
        IN /\ r.evictedKeys = SubSeq(touchOrder, 1, m)
           /\ DOMAIN r.st.map = (DOMAIN map) \ SeqToSet(r.evictedKeys)
           /\ \A k \in DOMAIN r.st.map : r.st.map[k] = map[k]
           /\ SeqToSet(r.st.lru) = DOMAIN r.st.map
           /\ r.st.stats.evictions = stats.evictions + m
           /\ r.st.stats.keyCount = stats.keyCount - m

\* C4 witness: evict() was called on a store with no memory budget, removed
\* one of two keys and left the more recently used one.
C4_Witness ==
    /\ maxMemoryBytes = 0
    /\ stats.evictions = 1
    /\ Cardinality(DOMAIN map) = 1
    /\ \E k \in Keys : track[k].on /\ k \in DOMAIN map

\* C5: getLruKeys(n) returns the min(n, number of present keys) present keys
\* ordered least recently used first, a key's recency being given by its last
\* successful set() or its last get() that hit.
C5_LruOrder ==
    \A n \in 0..(NumKeys + 1) :
        getLruKeys(n) = SubSeq(touchOrder, 1, Min(n, Cardinality(DOMAIN map)))

\* C5 witness: key 1 was stored before key 2 and is listed after it, having
\* been hit by a get() since.
C5_Witness ==
    /\ NumKeys >= 2
    /\ DOMAIN map = {1, 2}
    /\ map[1].createdAt < map[2].createdAt
    /\ stats.hits > 0
    /\ getLruKeys(2) = <<2, 1>>

\* C6: the recency list, walked from head to tail, holds exactly the keys of
\* the map, each once, and keyToNode holds exactly those keys, in every state
\* that concurrent calls can observe.
C6_MapLruInStep ==
    /\ SeqToSet(lru) = DOMAIN map
    /\ Len(lru) = Cardinality(DOMAIN map)
    /\ keyToNode = DOMAIN map

\* C6 witness: a set() is suspended after evicting, while another call has
\* stored a key.
C6_Witness ==
    /\ stats.evictions > 0
    /\ DOMAIN map # {}
    /\ \E p \in pending : p.key \notin DOMAIN map

RECURSIVE SumSizes(_)
SumSizes(m) ==
    IF DOMAIN m = {} THEN 0
    ELSE LET key == CHOOSE k \in DOMAIN m : TRUE
         IN m[key].sizeBytes + SumSizes(RemoveKey(m, key))

\* C7 as stated: getStats().keyCount is the number of entries the store holds.
C7_KeyCount == getStats.keyCount = Cardinality(DOMAIN map)

\* C8 as stated: memoryUsageBytes is the sum of sizeBytes over the entries the
\* store holds.
C8_MemoryUsage == getStats.memoryUsageBytes = SumSizes(map)

\* C9 as stated: set(k, v2, {overwrite: false}) returns a failure iff k is
\* live, that is present and not expired.
C9_OverwriteFalse ==
    \A k \in Keys : setFails(k, FALSE) <=> (k \in DOMAIN map /\ ~TimeExpired(k))

\* C10 as stated: a get(k, {refreshTtl: true}) that hits an entry having a TTL
\* sets its expiresAt to (time of the get) + D, D being the TTL duration the
\* entry was stored with, at the first and at every later refreshing get.
C10_RefreshTtl ==
    \A k \in Keys :
        (track[k].on /\ getReturn(k) # 0 /\ map[k].expiresAt # 0)
            => getHit(Store, k, TRUE, now).map[k].expiresAt = now + track[k].ttlMs

\* ------------------------------------------------------------ MultiTierStore
\* MultiTierStore over two stores of the IKeyValueStore contract. A tier is
\* the function from keys to the value it holds (0: none). The orchestrator's
\* call runs from one `await tier.method(..)` to the next in one step: the
\* call is suspended at pc, and at a later step the tier acts and the call
\* resumes with the tier's reply, up to its next await or its return; other
\* calls and the write-behind processor interleave in between. A tier replies
\* with a success result ("ok"), a failure result ("err") or a rejected
\* promise ("throw"); only a success has taken effect. The TTL given to the
\* fast tier shows as that tier dropping the key at some later step.
Outcomes == {"ok", "err", "throw"}

Configs == [populateL1OnL2Hit : BOOLEAN, writeThrough : BOOLEAN, writeBehind : BOOLEAN]

\* what the durable tier holds when the orchestrator is constructed over it
DurableContents == {EmptyTier, [k \in Keys |-> 7]}

MemoryStoreIdle ==
    /\ now = 1
    /\ maxMemoryBytes = 0
    /\ map = [k \in {} |-> 0]
    /\ lru = <<>>
    /\ keyToNode = {}
    /\ stats = [keyCount |-> 0, memoryUsageBytes |-> 0, hits |-> 0, misses |-> 0,
                evictions |-> 0, expirations |-> 0]
    /\ pending = {}
    /\ calls = 0
    /\ track = [k \in Keys |-> NoTrack]
    /\ touchOrder = <<>>

\* the constructor: the processor is started when writeBehind is set
InitMT ==
    /\ MemoryStoreIdle
    /\ CacheItemIdle
    /\ config \in Configs
    /\ l1Cache = EmptyTier
    /\ l2Cache \in DurableContents
    /\ writeBehindQueue = EmptyTier
    /\ writeBehindTimer = config.writeBehind
    /\ inflight = {}
    /\ ops = 0
    /\ last = NoCall
    /\ hist = [NoHist EXCEPT !.durable = l2Cache]

\* the keys with an entry in a tier, the queue or a batch
Held(f) == {k \in Keys : f[k] # 0}

\* Map.delete for each key of S
Without(f, S) == [k \in Keys |-> IF k \in S THEN 0 ELSE f[k]]

newCall(op, key, value, pc) ==
    [NoCall EXCEPT !.op = op, !.key = key, !.value = value, !.pc = pc]

\* `await tier.method(..)`
Await(c, pc) == [c EXCEPT !.pc = pc]

Awaiting(c, op, pc) == c \in inflight /\ c.op = op /\ c.pc = pc

\* the calls in flight are told apart by a slot number, free again when the
\* call has returned
Seat(c, others) ==
    [c EXCEPT !.slot = CHOOSE s \in 1..MaxInFlight : \A d \in others : d.slot # s]

\* a call of the orchestrator begins and runs to its first await; others is
\* the calls in flight with what the history notes in them
Begin(c, others) ==
    /\ ops < MaxOps
    /\ Cardinality(inflight) < MaxInFlight
    /\ ops' = ops + 1
    /\ inflight' = others \cup {Seat(c, others)}
    /\ last' = NoCall
    /\ UNCHANGED <<vars, civars, config>>

Start(c) == Begin(c, inflight)

\* the call c resumes and runs to its next await, as d
Suspend(c, d) ==
    /\ inflight' = (inflight \ {c}) \cup {d}
    /\ last' = NoCall
    /\ UNCHANGED <<vars, civars, config, ops>>

\* the call c resumes and returns; others is the other calls in flight with
\* what the history notes in them
Done(c, reply, res, ret, others) ==
    /\ inflight' = others
    /\ last' = [c EXCEPT !.slot = 0, !.reply = reply, !.res = res, !.ret = ret]
    /\ UNCHANGED <<vars, civars, config, ops>>

Return(c, reply, res, ret) == Done(c, reply, res, ret, inflight \ {c})

\* history: the fast tier's copy of key was written by a read-through (value)
\* or changed in another way (0); hist.durable is what the durable tier held
\* at construction
Warmed(key, value) == [hist EXCEPT !.warm[key] = value]

\* IKeyValueStore.set, delete and mset, as what the tier holds afterwards
tierSet(tier, key, value) == [tier EXCEPT ![key] = value]

tierDelete(tier, key) == [tier EXCEPT ![key] = 0]

tierMset(tier, batch) == [k \in Keys |-> IF batch[k] # 0 THEN batch[k] ELSE tier[k]]

\* the fast tier drops a key: its TTL has elapsed, or the tier has evicted it
L1Drop(key) ==
    /\ l1Cache[key] # 0
    /\ l1Cache' = tierDelete(l1Cache, key)
    /\ hist' = Warmed(key, 0)
    /\ last' = NoCall
    /\ UNCHANGED <<vars, civars, config, l2Cache, writeBehindQueue, writeBehindTimer, inflight, ops>>

\* get(key)
MtGet(key) ==
    /\ Start(newCall("get", key, 0, "l1.get"))
    /\ UNCHANGED <<l1Cache, l2Cache, writeBehindQueue, writeBehindTimer, hist>>

\* get(): `if (l1Result.ok && l1Result.value !== undefined)`
l1Hit_anyResult(outcome, value) == outcome = "ok"
l1Hit(outcome, value) == outcome = "ok" /\ value # 0

\* get() resumed after `await this.l1Cache.get(key)`; l1Value and warm record
\* what the fast tier answered with and whether that copy came from a
\* read-through
GetL1(c, outcome) ==
    /\ Awaiting(c, "get", "l1.get")
    /\ LET d == IF outcome = "ok"
                THEN [c EXCEPT !.l1Value = l1Cache[c.key], !.warm = hist.warm[c.key]]
                ELSE c
       IN IF outcome = "throw" THEN Return(d, outcome, "err", 0)
          ELSE IF l1Hit(outcome, l1Cache[c.key])
          THEN Return(d, outcome, "ok", l1Cache[c.key])
          ELSE Suspend(c, [Await(d, "l2.get") EXCEPT !.l2Called = TRUE])
    /\ UNCHANGED <<l1Cache, l2Cache, writeBehindQueue, writeBehindTimer, hist>>

\* get(): the value given to l1Cache.set on a durable-tier hit
populateValue_other(value) == CHOOSE v \in Values : v # value
populateValue(value) == value

\* get() resumed after `await this.l2Cache.get(key)`
GetL2(c, outcome) ==
    /\ Awaiting(c, "get", "l2.get")
    /\ IF outcome # "ok" THEN Return(c, outcome, "err", 0)
       ELSE IF l2Cache[c.key] = 0 THEN Return(c, outcome, "ok", 0)
       ELSE IF config.populateL1OnL2Hit
       THEN Suspend(c, [Await(c, "l1.populate") EXCEPT !.got = l2Cache[c.key],
                            !.value = populateValue(l2Cache[c.key])])
       ELSE Return([c EXCEPT !.got = l2Cache[c.key]], outcome, "ok", l2Cache[c.key])
    /\ UNCHANGED <<l1Cache, l2Cache, writeBehindQueue, writeBehindTimer, hist>>

\* get() resumed after `await this.l1Cache.set(key, l2Result.value, ..)`
GetPopulate(c, outcome) ==
    /\ Awaiting(c, "get", "l1.populate")
    /\ IF outcome = "ok"
       THEN /\ l1Cache' = tierSet(l1Cache, c.key, c.value)
            /\ hist' = Warmed(c.key, c.value)
            /\ Return([c EXCEPT !.l1Wrote = c.value], outcome, "ok", c.got)
       ELSE /\ UNCHANGED <<l1Cache, hist>>
            /\ Return(c, outcome, IF outcome = "throw" THEN "err" ELSE "ok",
                      IF outcome = "throw" THEN 0 ELSE c.got)
    /\ UNCHANGED <<l2Cache, writeBehindQueue, writeBehindTimer>>

\* set(key, value)
MtSet(key, value) ==
    /\ Start(newCall("set", key, value, "l1.set"))
    /\ UNCHANGED <<l1Cache, l2Cache, writeBehindQueue, writeBehindTimer, hist>>

\* queueWriteBehind(key, value)
queueWriteBehind_keepFirst(queue, key, value) ==
    IF queue[key] # 0 THEN queue ELSE [queue EXCEPT ![key] = value]
queueWriteBehind(queue, key, value) == [queue EXCEPT ![key] = value]

\* history: the value of key that a set replaced in the queue while no batch
\* was in flight and the durable tier did not hold it; forgotten when that
\* value is queued for key again
Coalesced(h, key, value) ==
    LET old == writeBehindQueue[key] IN
    [h EXCEPT !.coalesced[key] =
        IF /\ old \notin {0, value}
           /\ \A d \in inflight : d.pc # "l2.mset"
           /\ l2Cache[key] # old
        THEN old
        ELSE IF @ = value THEN 0 ELSE @]

\* set(): which write policy applies once the fast tier is written
writesThrough_never == FALSE
writesThrough == config.writeThrough
queues_unlessThrough == ~config.writeThrough
queues == ~config.writeThrough /\ config.writeBehind

\* history: the entry of key now in the queue was not there when the deletes
\* of key in flight were called
Requeued(others, key) ==
    {IF d.op = "delete" /\ d.key = key THEN [d EXCEPT !.queuedAtCall = FALSE] ELSE d :
        d \in others}

\* set() resumed after `await this.l1Cache.set(key, value, ..)`
SetL1(c, outcome) ==
    /\ Awaiting(c, "set", "l1.set")
    /\ IF outcome # "ok"
       THEN /\ Return(c, outcome, "err", 0)
            /\ UNCHANGED <<l1Cache, hist, writeBehindQueue>>
       ELSE /\ l1Cache' = tierSet(l1Cache, c.key, c.value)
            /\ hist' = IF ~writesThrough /\ queues
                       THEN Coalesced(Warmed(c.key, 0), c.key, c.value)
                       ELSE Warmed(c.key, 0)
            /\ LET d == [c EXCEPT !.l1Wrote = c.value] IN
               IF writesThrough
               THEN /\ Suspend(c, [Await(d, "l2.set") EXCEPT !.l2Called = TRUE])
                    /\ UNCHANGED writeBehindQueue
               ELSE IF queues
               THEN /\ writeBehindQueue' = queueWriteBehind(writeBehindQueue, c.key, c.value)
                    /\ Done([d EXCEPT !.queued = TRUE], outcome, "ok", 0,
                            Requeued(inflight \ {c}, c.key))
               ELSE /\ Return(d, outcome, "ok", 0)
                    /\ UNCHANGED writeBehindQueue
    /\ UNCHANGED <<l2Cache, writeBehindTimer>>

\* set() resumed after `await this.l2Cache.set(key, value, ..)`
SetL2(c, outcome) ==
    /\ Awaiting(c, "set", "l2.set")
    /\ IF outcome = "ok"
       THEN /\ l2Cache' = tierSet(l2Cache, c.key, c.value)
            /\ Return([c EXCEPT !.l2Wrote = c.value], outcome, "ok", 0)
       ELSE /\ UNCHANGED l2Cache
            /\ Return(c, outcome, IF outcome = "throw" THEN "err" ELSE "ok", 0)
    /\ UNCHANGED <<l1Cache, writeBehindQueue, writeBehindTimer, hist>>

\* history: the batches in flight that hold an entry of key when delete(key)
\* is called
Doomed(others, key) ==
    {IF d.batch[key] # 0 THEN [d EXCEPT !.doomed = @ \cup {key}] ELSE d : d \in others}

\* delete(key)
MtDelete(key) ==
    /\ Begin([newCall("delete", key, 0, "l1.delete") EXCEPT
                 !.queuedAtCall = writeBehindQueue[key] # 0],
             Doomed(inflight, key))
    /\ UNCHANGED <<l1Cache, l2Cache, writeBehindQueue, writeBehindTimer, hist>>

\* delete() resumed after `await this.l1Cache.delete(key)`
DeleteL1(c, outcome) ==
    /\ Awaiting(c, "delete", "l1.delete")
    /\ IF outcome = "throw"
       THEN Return(c, outcome, "err", 0)
       ELSE Suspend(c, [Await(c, "l2.delete") EXCEPT
                            !.deleted = outcome = "ok" /\ l1Cache[c.key] # 0,
                            !.l2Called = TRUE])
    /\ IF outcome = "ok"
       THEN /\ l1Cache' = tierDelete(l1Cache, c.key)
            /\ hist' = Warmed(c.key, 0)
       ELSE UNCHANGED <<l1Cache, hist>>
    /\ UNCHANGED <<l2Cache, writeBehindQueue, writeBehindTimer>>

\* history: the batches in flight that hold an entry of key queued before a
\* delete(key) that has now returned was called
MarkStale(others, key) ==
    {IF key \in d.doomed THEN [d EXCEPT !.stale = @ \cup {key}] ELSE d : d \in others}

\* delete() resumed after `await this.l2Cache.delete(key)`
DeleteL2(c, outcome) ==
    /\ Awaiting(c, "delete", "l2.delete")
    /\ IF outcome = "throw"
       THEN /\ Return(c, outcome, "err", 0)
            /\ UNCHANGED writeBehindQueue
       ELSE /\ writeBehindQueue' = Without(writeBehindQueue, {c.key})
            /\ inflight' = MarkStale(inflight \ {c}, c.key)
            /\ last' = [c EXCEPT !.reply = outcome, !.res = "ok",
                                 !.deleted = @ \/ (outcome = "ok" /\ l2Cache[c.key] # 0)]
            /\ UNCHANGED <<vars, civars, config, ops>>
    /\ IF outcome = "ok"
       THEN l2Cache' = tierDelete(l2Cache, c.key)
       ELSE UNCHANGED l2Cache
    /\ UNCHANGED <<l1Cache, writeBehindTimer, hist>>

\* processWriteBehindQueue() up to `await this.l2Cache.mset(operations)`
processWriteBehindQueue(op) ==
    [newCall(op, 0, 0, "l2.mset") EXCEPT
        !.batch = writeBehindQueue, !.l2Called = TRUE,
        !.doomed = {d.key : d \in {x \in inflight : x.op = "delete" /\ x.queuedAtCall}}]

\* processWriteBehindQueue() after the await: the keys of the batch leave the
\* queue unless mset threw
afterMset_byEntry(queue, batch, outcome) ==
    IF outcome = "throw" THEN queue
    ELSE [k \in Keys |-> IF queue[k] = batch[k] THEN 0 ELSE queue[k]]
afterMset(queue, batch, outcome) ==
    IF outcome = "throw" THEN queue ELSE Without(queue, Held(batch))

\* processWriteBehindQueue() resumed after `await this.l2Cache.mset(operations)`
msetResumed(c, outcome) ==
    /\ l2Cache' = IF outcome = "ok" THEN tierMset(l2Cache, c.batch) ELSE l2Cache
    /\ writeBehindQueue' = afterMset(writeBehindQueue, c.batch, outcome)
    /\ Return(c, outcome, IF outcome = "ok" THEN "ok" ELSE "err", 0)
    /\ UNCHANGED <<l1Cache, writeBehindTimer, hist>>

\* the interval of startWriteBehindProcessor fires; with an empty queue
\* processWriteBehindQueue returns at once and nothing changes
Flush ==
    /\ writeBehindTimer
    /\ Held(writeBehindQueue) # {}
    /\ Cardinality(inflight) < MaxInFlight
    /\ inflight' = inflight \cup {Seat(processWriteBehindQueue("flush"), inflight)}
    /\ last' = NoCall
    /\ UNCHANGED <<vars, civars, config, ops>>
    /\ UNCHANGED <<l1Cache, l2Cache, writeBehindQueue, writeBehindTimer, hist>>

FlushMset(c, outcome) ==
    /\ Awaiting(c, "flush", "l2.mset")
    /\ msetResumed(c, outcome)

\* destroy(); with an empty queue processWriteBehindQueue returns at once
Destroy ==
    /\ writeBehindTimer' = FALSE
    /\ IF Held(writeBehindQueue) = {}
       THEN /\ ops < MaxOps
            /\ ops' = ops + 1
            /\ last' = [newCall("destroy", 0, 0, "drained") EXCEPT !.res = "ok"]
            /\ UNCHANGED <<vars, civars, config, inflight>>
       ELSE Start(processWriteBehindQueue("destroy"))
    /\ UNCHANGED <<l1Cache, l2Cache, writeBehindQueue, hist>>

DestroyMset(c, outcome) ==
    /\ Awaiting(c, "destroy", "l2.mset")
    /\ msetResumed(c, outcome)

NextMT ==
    \/ \E key \in Keys : MtGet(key)
    \/ \E key \in Keys, value \in Values : MtSet(key, value)
    \/ \E key \in Keys : MtDelete(key)
    \/ Flush
    \/ Destroy
    \/ \E c \in inflight, outcome \in Outcomes : GetL1(c, outcome)
    \/ \E c \in inflight, outcome \in Outcomes : GetL2(c, outcome)
    \/ \E c \in inflight, outcome \in Outcomes : GetPopulate(c, outcome)
    \/ \E c \in inflight, outcome \in Outcomes : SetL1(c, outcome)
    \/ \E c \in inflight, outcome \in Outcomes : SetL2(c, outcome)
    \/ \E c \in inflight, outcome \in Outcomes : DeleteL1(c, outcome)
    \/ \E c \in inflight, outcome \in Outcomes : DeleteL2(c, outcome)
    \/ \E c \in inflight, outcome \in Outcomes : FlushMset(c, outcome)
    \/ \E c \in inflight, outcome \in Outcomes : DestroyMset(c, outcome)
    \/ \E key \in Keys : L1Drop(key)

SpecMT == InitMT /\ [][NextMT]_mtvars

\* ---------------------------------------------------- MultiTierStore claims
\* the call that returned in the step just taken
Returned(op) == last.op = op /\ last.res # "none"

\* C11: a get(k) that misses the fast tier and hits the durable tier with
\* populateL1OnL2Hit set writes the durable value to the fast tier and returns
\* it; a later get(k) that the fast tier answers while that copy is still
\* there (not dropped, deleted or overwritten) returns the copy and makes no
\* call to the durable tier.
C11_ReadThrough ==
    Returned("get") =>
        /\ (last.got # 0 /\ config.populateL1OnL2Hit) => last.pc = "l1.populate"
        /\ (last.pc = "l1.populate" /\ last.reply = "ok") =>
               /\ last.res = "ok" /\ last.ret = last.got
               /\ l1Cache[last.key] = last.got
        /\ last.warm # 0 =>
               /\ last.res = "ok" /\ last.ret = last.warm
               /\ ~last.l2Called

\* C11 witness: a get has returned the copy a read-through left in the fast
\* tier, without calling the durable tier.
C11_Witness ==
    /\ Returned("get") /\ last.warm # 0 /\ last.ret = last.warm /\ ~last.l2Called
    /\ l2Cache[last.key] = last.warm

\* C12: a get(k) that the fast tier answers with a value returns that value
\* and makes no call to the durable tier; a get(k) returns Not-Found (success
\* with no value) only when the durable tier was asked and answered with no
\* value, the fast tier having given none.
C12_FastPath ==
    Returned("get") =>
        /\ last.l1Value # 0 =>
               /\ last.res = "ok" /\ last.ret = last.l1Value
               /\ ~last.l2Called
        /\ (last.res = "ok" /\ last.ret = 0) =>
               /\ last.l1Value = 0
               /\ last.l2Called /\ last.pc = "l2.get" /\ last.reply = "ok"
               /\ l2Cache[last.key] = 0

\* C12 witness: a get has returned a value that set() put in the fast tier
\* while the durable tier holds none for the key.
C12_Witness ==
    /\ Returned("get") /\ last.l1Value # 0 /\ last.warm = 0
    /\ last.ret = last.l1Value /\ ~last.l2Called
    /\ l2Cache[last.key] = 0

\* C13: under writeThrough a set(k, v) writes the fast tier and then, in the
\* same call, the durable tier; when the fast-tier write succeeded and the
\* durable tier returns a failure, set returns success and the fast-tier
\* write of v stands; when the fast-tier write fails, set returns the failure
\* and has neither called the durable tier nor queued anything.
C13_WriteThrough ==
    (Returned("set") /\ config.writeThrough) =>
        /\ last.pc \in {"l1.set", "l2.set"}
        /\ last.pc = "l2.set" <=> last.l1Wrote = last.value
        /\ last.pc = "l2.set" <=> last.l2Called
        /\ (last.pc = "l2.set" /\ last.reply = "ok") =>
               last.res = "ok" /\ last.l2Wrote = last.value
        /\ (last.pc = "l2.set" /\ last.reply = "err") =>
               last.res = "ok" /\ last.l2Wrote = 0
        /\ last.pc = "l1.set" =>
               /\ last.reply # "ok" /\ last.res = "err"
               /\ last.l1Wrote = 0 /\ last.l2Wrote = 0
        /\ ~last.queued

\* C13 witness: a write-through set has returned success after the durable
\* tier returned a failure; the fast tier holds v and the durable tier does
\* not.
C13_Witness ==
    /\ Returned("set") /\ config.writeThrough /\ ~config.writeBehind
    /\ last.pc = "l2.set" /\ last.reply = "err" /\ last.res = "ok"
    /\ l1Cache[last.key] = last.value
    /\ l2Cache[last.key] # last.value

\* C14: in every configuration with writeBehind set, a successful set(k, v)
\* makes no call to the durable tier and leaves (k, v) in the write-behind
\* queue.
C14_WriteBehindQueues ==
    (Returned("set") /\ last.res = "ok" /\ config.writeBehind) =>
        /\ ~last.l2Called /\ last.l2Wrote = 0
        /\ last.queued /\ writeBehindQueue[last.key] = last.value

\* C19: with writeThrough and writeBehind both off, set calls write the fast
\* tier only: no set calls the durable tier, the write-behind queue stays
\* empty, and the durable tier holds for each key what it held at
\* construction (or nothing, after a delete).
C19_NeitherFlag ==
    (~config.writeThrough /\ ~config.writeBehind) =>
        /\ writeBehindQueue = EmptyTier
        /\ \A k \in Keys : l2Cache[k] \in {0, hist.durable[k]}
        /\ \A c \in inflight : c.op = "set" => c.pc = "l1.set"
        /\ Returned("set") =>
               /\ ~last.l2Called /\ last.l2Wrote = 0 /\ ~last.queued
               /\ last.res = "ok" <=> last.l1Wrote = last.value

\* C19 witness: with both flags off a set of a value the durable tier does not
\* hold has returned success, and the fast tier holds it.
C19_Witness ==
    /\ ~config.writeThrough /\ ~config.writeBehind
    /\ Returned("set") /\ last.res = "ok"
    /\ l1Cache[last.key] = last.value
    /\ l2Cache[last.key] # 0 /\ l2Cache[last.key] # last.value

\* C15: under write-behind, a set of k replaces the queue's entry for k, so
\* the queue holds one entry per key with the value set last; a flush takes
\* the whole queue as one batch and, when mset has returned, removes the keys
\* of the batch, leaving the queue empty if nothing was queued meanwhile; the
\* durable tier is written from batches only, and never holds a value that
\* was replaced in the queue before a flush started.
C15_Coalescing ==
    /\ [](queues =>
            /\ (Returned("set") /\ last.res = "ok") =>
                   last.queued /\ writeBehindQueue[last.key] = last.value
            /\ \A k \in Keys :
                   hist.coalesced[k] # 0 => l2Cache[k] # hist.coalesced[k])
    /\ [][queues =>
            /\ inflight \subseteq inflight' =>
                   \A c \in inflight' \ inflight :
                       c.pc = "l2.mset" =>
                           c.batch = writeBehindQueue /\ writeBehindQueue' = writeBehindQueue
            /\ (last'.pc = "l2.mset" /\ last'.res # "none" /\ last'.reply # "throw") =>
                   /\ writeBehindQueue' = Without(writeBehindQueue, Held(last'.batch))
                   /\ writeBehindQueue = last'.batch => writeBehindQueue' = EmptyTier
                   /\ last'.reply = "ok" =>
                          \A k \in Held(last'.batch) : l2Cache'[k] = last'.batch[k]
            /\ \A k \in Keys :
                   l2Cache'[k] \notin {0, l2Cache[k]} =>
                       last'.pc = "l2.mset" /\ last'.batch[k] = l2Cache'[k]
        ]_mtvars

\* C15 witness: k was set to v1 and then to v2 with no flush in between; the
\* flush that followed has sent v2, the queue is empty and the durable tier
\* holds v2.
C15_Witness ==
    /\ queues /\ Returned("flush") /\ last.reply = "ok"
    /\ \E k \in Keys :
          /\ hist.coalesced[k] # 0
          /\ last.batch[k] \notin {0, hist.coalesced[k]}
          /\ l2Cache[k] = last.batch[k]
    /\ writeBehindQueue = EmptyTier

\* C16: once delete(k) has returned, no write-behind batch writes to the
\* durable tier an entry of k that was queued before that delete was called,
\* whether the batch was in flight when delete was called or was taken while
\* delete was awaiting the tiers.
C16_NoResurrection ==
    (last.pc = "l2.mset" /\ last.res # "none" /\ last.reply = "ok") => last.stale = {}

\* C17: when destroy() returns, the flush interval is cleared and every write
\* that was in the write-behind queue when destroy was called has been
\* applied to the durable tier.
C17_DestroyDrains ==
    Returned("destroy") =>
        /\ ~writeBehindTimer
        /\ Held(last.batch) # {} => last.reply = "ok"

\* ------------------------------------------- write-behind under fair flushes
\* MultiTierStore with writeBehind and without writeThrough, over a durable
\* tier that accepts every batch; set calls and the processor only. The
\* interval keeps firing (setInterval), and an awaited tier call settles and
\* its caller resumes: weak fairness of Flush, FlushMset and SetL1. Nothing
\* obliges a caller to call set.
InitWB ==
    /\ InitMT
    /\ config = [populateL1OnL2Hit |-> TRUE, writeThrough |-> FALSE, writeBehind |-> TRUE]

FlushAccepted == \E c \in inflight : FlushMset(c, "ok")

SetResumed == \E c \in inflight, outcome \in Outcomes : SetL1(c, outcome)

NextWB ==
    \/ \E key \in Keys, value \in Values : MtSet(key, value)
    \/ SetResumed
    \/ Flush
    \/ FlushAccepted

SpecWB ==
    /\ InitWB /\ [][NextWB]_mtvars
    /\ WF_mtvars(Flush) /\ WF_mtvars(FlushAccepted) /\ WF_mtvars(SetResumed)

\* C18: under write-behind with a durable tier that accepts writes and a
\* fairly scheduled flush, once the sets of k have stopped the durable tier
\* eventually holds, and keeps, the value the fast tier holds for k (the
\* last value set).
C18_EventuallyConsistent ==
    \A k \in Keys : <>[](l1Cache[k] # 0 => l2Cache[k] = l1Cache[k])

\* ----------------------------------------------------------------- cacheItem
\* cacheItem(input) over a store of the IKeyValueStore contract (cached, the
\* value held per key) and a fetcher. A call runs from one await to the next
\* in one step; store.get and store.set reply as the tiers above do, the
\* fetcher resolves with a value or rejects, and the store may drop a key
\* (TTL elapsed, eviction) between steps. The fetcher is invoked when the
\* call reaches `await safeAsync(fetcher)` and settles at a later step.
DefaultValues == {0, 99}

\* what a rejected fetcher rejects with
FetchErrors == {-1, -2}

FetchOutcomes == Values \cup FetchErrors

\* input.options: maxRetries, defaultValue (0: undefined), and the option that
\* makes a failed store.set fail the call
ItemOptions ==
    [maxRetries : 0..MaxRetries, defaultValue : DefaultValues, storeOnError : BOOLEAN]

NoItem ==
    [id |-> 0, key |-> 0, pc |-> "done", held |-> 0, getReply |-> "none", delays |-> 0,
     sets |-> 0, lastError |-> 0, retryCount |-> 0, retryAttempted |-> FALSE, fetched |-> 0,
     attempts |-> 0, after |-> 0, got |-> 0, reply |-> "ok",
     res |-> "none", code |-> "none", value |-> 0, fromCache |-> FALSE, cacheHit |-> FALSE,
     carries |-> {}]

InitCI ==
    /\ MemoryStoreIdle
    /\ MultiTierIdle
    /\ options \in ItemOptions
    /\ WrappersIdle
    /\ createdAt = EmptyTier
    /\ cached = EmptyTier
    /\ itemCalls = {}
    /\ fetches = EmptyTier
    /\ results = <<>>

ItemAwaiting(c, pc) == c \in itemCalls /\ c.pc = pc

ItemSuspend(c, d) ==
    /\ itemCalls' = (itemCalls \ {c}) \cup {d}
    /\ UNCHANGED results

\* CacheResult.metadata: the fields of the metadata a success carries
Metadata == {"operationTimeMs", "cacheHit", "retryAttempted", "retryCount"}

\* the details object given to createCacheError, by error code
errorDetails(code) ==
    IF code = "FETCH_FAILED" THEN {"key", "retryCount", "lastError"}
    ELSE {"key", "storeError"}

\* `return Ok({value, fromCache, metadata: {cacheHit, retryAttempted, retryCount}})`:
\* the suspended call c returns, d being its record at the return
ItemOk(c, d, value, fromCache) ==
    /\ itemCalls' = itemCalls \ {c}
    /\ results' = Append(results, [d EXCEPT !.res = "ok", !.value = value,
                                            !.fromCache = fromCache, !.cacheHit = fromCache,
                                            !.carries = Metadata])

\* `return Err(createCacheError(.., code, ..))`
ItemErr(c, d, code) ==
    /\ itemCalls' = itemCalls \ {c}
    /\ results' = Append(results, [d EXCEPT !.res = "err", !.code = code,
                                            !.carries = errorDetails(code)])

\* the return of the catch block
ItemCaught(c, d) ==
    /\ itemCalls' = itemCalls \ {c}
    /\ results' = Append(results, [d EXCEPT !.res = "err", !.code = "FETCH_FAILED",
                                            !.carries = {"key", "error", "operationTimeMs"}])

\* `try { .. } catch (error) { .. }`: a rejected store call is caught
caught_orFailure(outcome) == outcome # "ok"
caught(outcome) == outcome = "throw"

\* `while (retryCount <= mergedOptions.maxRetries)` and the same test before the
\* delay
retries_oneMore(retryCount, maxRetries) == retryCount <= maxRetries + 1
retries(retryCount, maxRetries) == retryCount <= maxRetries

\* `if (mergedOptions.defaultValue !== undefined)`
hasDefault_never(defaultValue) == FALSE
hasDefault_always(defaultValue) == TRUE
hasDefault(defaultValue) == defaultValue # 0

\* `if (!storeResult.ok)` and not `if (!mergedOptions.storeOnError)`: the failed
\* store.set fails the call
storeFailed_unlessOption(outcome, storeOnError) == outcome = "err" /\ ~storeOnError
storeFailed(outcome, storeOnError) == outcome = "err" /\ storeOnError

\* `store.set(key, fetchResult.value, {ttlMs, overwrite: true})`, accepted
storeSet_noOverwrite(tier, key, value) ==
    IF tier[key] # 0 THEN tier ELSE tierSet(tier, key, value)
storeSet(tier, key, value) == tierSet(tier, key, value)

\* `await safeAsync(fetcher)`: the fetcher is invoked
invokeFetcher(c) == [c EXCEPT !.pc = "fetch", !.attempts = @ + 1]

\* cacheItem(input) up to `await store.get(key, getOptions)`; id numbers the
\* calls in the order they are made, after is the number of calls that had
\* returned when this one was made
CacheItem(key) ==
    /\ Len(results) + Cardinality(itemCalls) < MaxItems
    /\ LET c == [NoItem EXCEPT !.id = Len(results) + Cardinality(itemCalls) + 1,
                               !.key = key, !.pc = "get", !.after = Len(results)]
       IN itemCalls' = itemCalls \cup {c}
    /\ UNCHANGED <<vars, mtvars, ucvars, options, cached, createdAt, fetches, results>>

\* `else if (cacheResult.value !== undefined)`
itemHit_never(outcome, value) == FALSE
itemHit(outcome, value) == outcome = "ok" /\ value # 0

\* cacheItem resumed after `await store.get(key, getOptions)`
ItemGet(c, outcome) ==
    /\ ItemAwaiting(c, "get")
    /\ LET d == [c EXCEPT !.reply = outcome, !.getReply = outcome,
                          !.got = IF outcome = "ok" THEN cached[c.key] ELSE 0]
       IN IF caught(outcome)
          THEN ItemCaught(c, d) /\ UNCHANGED fetches
          ELSE IF itemHit(outcome, cached[c.key])
          THEN ItemOk(c, d, cached[c.key], TRUE) /\ UNCHANGED fetches
          ELSE /\ ItemSuspend(c, invokeFetcher(d))
               /\ fetches' = [fetches EXCEPT ![c.key] = @ + 1]
    /\ UNCHANGED <<vars, mtvars, ucvars, options, cached, createdAt>>

\* cacheItem resumed after `await safeAsync(fetcher)`; fetched is the value
\* the fetcher resolved with, or the error it rejected with
ItemFetch(c, fetched) ==
    /\ ItemAwaiting(c, "fetch")
    /\ IF fetched \in Values
       THEN ItemSuspend(c, [c EXCEPT !.pc = "set", !.fetched = fetched])
       ELSE LET d == [c EXCEPT !.retryCount = @ + 1, !.retryAttempted = TRUE,
                               !.lastError = fetched] IN
            IF retries(d.retryCount, options.maxRetries)
            THEN ItemSuspend(c, [d EXCEPT !.pc = "delay"])
            ELSE IF hasDefault(options.defaultValue)
            THEN ItemOk(c, d, options.defaultValue, FALSE)
            ELSE ItemErr(c, d, "FETCH_FAILED")
    /\ UNCHANGED <<vars, mtvars, ucvars, options, cached, createdAt, fetches>>

\* cacheItem resumed after the retry delay
ItemDelay(c) ==
    /\ ItemAwaiting(c, "delay")
    /\ ItemSuspend(c, invokeFetcher([c EXCEPT !.delays = @ + 1]))
    /\ fetches' = [fetches EXCEPT ![c.key] = @ + 1]
    /\ UNCHANGED <<vars, mtvars, ucvars, options, cached, createdAt>>

\* cacheItem resumed after `await store.set(key, fetchResult.value, setOptions)`;
\* held records what the store holds for the key when the call returns
ItemSet(c, outcome) ==
    /\ ItemAwaiting(c, "set")
    /\ cached' = IF outcome = "ok" THEN storeSet(cached, c.key, c.fetched) ELSE cached
    /\ createdAt' = IF outcome = "ok" THEN [createdAt EXCEPT ![c.key] = clock] ELSE createdAt
    /\ LET d == [c EXCEPT !.reply = outcome, !.held = cached'[c.key], !.sets = @ + 1] IN
       IF caught(outcome) THEN ItemCaught(c, d)
       ELSE IF storeFailed(outcome, options.storeOnError) THEN ItemErr(c, d, "STORE_FAILED")
       ELSE ItemOk(c, d, c.fetched, FALSE)
    /\ UNCHANGED <<vars, mtvars, ucvars, options, fetches>>

\* the store drops a key: its TTL has elapsed, or the store has evicted it
ItemExpire(key) ==
    /\ cached[key] # 0
    /\ cached' = tierDelete(cached, key)
    /\ createdAt' = [createdAt EXCEPT ![key] = 0]
    /\ UNCHANGED <<vars, mtvars, ucvars, options, itemCalls, fetches, results>>

NextCI ==
    \/ \E key \in Keys : CacheItem(key)
    \/ \E c \in itemCalls, outcome \in Outcomes : ItemGet(c, outcome)
    \/ \E c \in itemCalls, fetched \in FetchOutcomes : ItemFetch(c, fetched)
    \/ \E c \in itemCalls : ItemDelay(c)
    \/ \E c \in itemCalls, outcome \in Outcomes : ItemSet(c, outcome)
    \/ \E key \in Keys : ItemExpire(key)

SpecCI == InitCI /\ [][NextCI]_civars

\* ----------------------------------------------------------- cacheItem claims
\* C20: a cacheItem call whose store.get returned a defined value returns that
\* value with fromCache = true and has not invoked the fetcher; a call that
\* missed, fetched a value and stored it returns the fetched value with
\* fromCache = false and leaves it in the store; and a second call for the
\* same key, made after such a first call on an empty store has returned and
\* finding the value still there, returns the same value with fromCache =
\* true, the fetcher having been invoked as often as the first call invoked
\* it: once when its first attempt succeeded.
C20_HitSkipsFetcher ==
    /\ \A i \in 1..Len(results) :
          LET r == results[i] IN
          /\ r.got # 0 =>
                /\ r.res = "ok" /\ r.value = r.got
                /\ r.fromCache /\ r.cacheHit
                /\ r.attempts = 0 /\ r.retryCount = 0 /\ ~r.retryAttempted
          /\ (r.pc = "set" /\ r.reply = "ok") =>
                /\ r.res = "ok" /\ r.value = r.fetched /\ ~r.fromCache
                /\ r.held = r.fetched
                /\ r.attempts = r.retryCount + 1
          /\ r.fromCache => r.got # 0
    /\ (/\ Len(results) = 2
        /\ results[1].pc = "set" /\ results[1].reply = "ok"
        /\ results[2].key = results[1].key /\ results[2].after = 1
        /\ results[2].got # 0
        /\ \A c \in itemCalls : c.key # results[1].key) =>
          /\ results[2].res = "ok" /\ results[2].fromCache
          /\ results[2].value = results[1].value
          /\ fetches[results[1].key] = results[1].attempts

\* C20 witness: on an empty store the first call fetched 42 at its first
\* attempt and stored it, the second call for the key then returned 42 from
\* the cache, and the fetcher was invoked once.
C20_Witness ==
    /\ Len(results) = 2
    /\ results[1].pc = "set" /\ results[1].reply = "ok" /\ results[1].attempts = 1
    /\ results[1].value = 42 /\ ~results[1].fromCache
    /\ results[2].key = results[1].key /\ results[2].after = 1
    /\ results[2].fromCache /\ results[2].value = 42
    /\ fetches[results[1].key] = 1

\* a returned call whose store.get found nothing
Missed(r) == r.getReply = "ok" /\ r.got = 0

\* C21: a call that missed invoked the fetcher at least once and at most
\* maxRetries + 1 times; it went on to store.set only from a successful
\* attempt, which was its last; it gave up only after maxRetries + 1 failed
\* attempts; and it waited the retry delay once between two attempts, never
\* after its last attempt. The same holds of the calls still running.
C21_BoundedRetry ==
    /\ \A i \in 1..Len(results) :
          LET r == results[i] IN
          Missed(r) =>
             /\ r.attempts >= 1 /\ r.attempts <= options.maxRetries + 1
             /\ r.fetched # 0 => r.attempts = r.retryCount + 1
             /\ r.fetched = 0 => r.attempts = options.maxRetries + 1
                                    /\ r.retryCount = r.attempts
             /\ r.delays = r.attempts - 1
    /\ \A c \in itemCalls :
          /\ c.attempts <= options.maxRetries + 1
          /\ c.pc = "fetch" => c.delays = c.attempts - 1 /\ c.retryCount = c.attempts - 1
          /\ c.pc = "delay" => /\ c.delays = c.attempts - 1 /\ c.retryCount = c.attempts
                               /\ c.attempts <= options.maxRetries
          /\ c.pc = "set" => /\ c.fetched # 0 /\ c.attempts = c.retryCount + 1
                             /\ c.delays = c.attempts - 1

\* C21 witness: with maxRetries = 1 a call that missed failed its first
\* attempt, waited once, and stored the value of its second attempt.
C21_Witness ==
    \E i \in 1..Len(results) :
        /\ Missed(results[i]) /\ options.maxRetries = 1
        /\ results[i].attempts = 2 /\ results[i].delays = 1
        /\ results[i].fetched = 42 /\ results[i].res = "ok"

\* C22: every successful return reports as retryCount the number of fetcher
\* invocations after the first (0 on a hit), and retryAttempted exactly when
\* there was such an invocation.
C22_RetryMetadata ==
    \A i \in 1..Len(results) :
        LET r == results[i] IN
        r.res = "ok" =>
           /\ r.retryCount = IF r.attempts = 0 THEN 0 ELSE r.attempts - 1
           /\ r.retryAttempted <=> r.attempts > 1

\* a returned call all of whose fetch attempts failed
AllFailed(r) == r.getReply \in {"ok", "err"} /\ r.got = 0 /\ r.fetched = 0

FetchFailed(r) == r.res = "err" /\ r.code = "FETCH_FAILED"

\* C24 as stated: a call returns FetchFailed exactly when it missed, all its
\* maxRetries + 1 attempts failed and no defaultValue is configured.
C24_FetchFailedIff ==
    \A i \in 1..Len(results) :
        LET r == results[i] IN
        FetchFailed(r) <=>
            (AllFailed(r) /\ r.attempts = options.maxRetries + 1 /\ options.defaultValue = 0)

\* C24 amended: a call returns FetchFailed exactly when either all its
\* maxRetries + 1 attempts failed after a miss and no defaultValue is
\* configured, or a store call rejected; in the first case the failure carries
\* the number of attempts made and the error of the last attempt, and the
\* call has made no store.set.
C24_FetchFailed ==
    \A i \in 1..Len(results) :
        LET r == results[i] IN
        /\ FetchFailed(r) <=>
              \/ AllFailed(r) /\ r.attempts = options.maxRetries + 1
                              /\ options.defaultValue = 0
              \/ r.reply = "throw"
        /\ (FetchFailed(r) /\ r.reply # "throw") =>
              /\ r.retryCount = r.attempts
              /\ r.lastError \in FetchErrors
              /\ r.sets = 0

\* C24 witness: with maxRetries = 1 and no defaultValue both attempts failed,
\* the second with the error -2, and the call returned FetchFailed carrying
\* the count 2 and that error.
C24_Witness ==
    \E i \in 1..Len(results) :
        /\ FetchFailed(results[i]) /\ AllFailed(results[i])
        /\ results[i].attempts = 2 /\ results[i].retryCount = 2
        /\ results[i].lastError = -2 /\ results[i].sets = 0

\* C25: a call whose fetch succeeded and whose store.set returned a failure
\* returns the fetched value with fromCache = false when storeOnError is
\* false, and a StoreFailed failure when it is true; the successful attempt
\* was its last, and the step in which a call resumes from store.set invokes
\* no fetcher.
C25_SetFailure ==
    /\ [](\A i \in 1..Len(results) :
             LET r == results[i] IN
             (r.pc = "set" /\ r.reply = "err") =>
                /\ r.fetched # 0 /\ r.attempts = r.retryCount + 1
                /\ IF options.storeOnError
                   THEN r.res = "err" /\ r.code = "STORE_FAILED"
                   ELSE r.res = "ok" /\ r.value = r.fetched /\ ~r.fromCache)
    /\ [][\A c \in itemCalls :
             (c.pc = "set" /\ c \notin itemCalls') =>
                 /\ fetches' = fetches
                 /\ Len(results') = Len(results) + 1
                 /\ results'[Len(results')].id = c.id]_civars

\* C25 witness: storeOnError is false, the fetcher gave 42, store.set failed,
\* and the call returned 42 with fromCache = false, the key not stored.
C25_Witness ==
    /\ ~options.storeOnError
    /\ Len(results) = 1 /\ itemCalls = {}
    /\ results[1].pc = "set" /\ results[1].reply = "err"
    /\ results[1].res = "ok" /\ results[1].value = 42 /\ ~results[1].fromCache
    /\ cached[results[1].key] = 0 /\ fetches[results[1].key] = 1

\* what the path after a miss returns, from the outcomes of the fetcher and
\* of store.set
MissResult(r) ==
    /\ r.attempts >= 1 /\ ~r.fromCache /\ ~r.cacheHit
    /\ IF r.fetched = 0
       THEN /\ r.sets = 0 /\ r.attempts = options.maxRetries + 1
            /\ IF options.defaultValue # 0
               THEN r.res = "ok" /\ r.value = options.defaultValue
               ELSE FetchFailed(r)
       ELSE /\ r.sets = 1 /\ r.pc = "set"
            /\ CASE r.reply = "ok" -> r.res = "ok" /\ r.value = r.fetched
                 [] r.reply = "err" /\ options.storeOnError ->
                        r.res = "err" /\ r.code = "STORE_FAILED"
                 [] r.reply = "err" /\ ~options.storeOnError ->
                        r.res = "ok" /\ r.value = r.fetched
                 [] OTHER -> FetchFailed(r)

\* C26: a call whose store.get returned a failure goes on to the fetcher, and
\* what it returns is what the path after a miss returns; a call still
\* running after a failed store.get is at the fetcher, the delay or store.set.
C26_GetFailureIsMiss ==
    /\ \A i \in 1..Len(results) :
          /\ results[i].getReply = "err" => MissResult(results[i])
          /\ Missed(results[i]) => MissResult(results[i])
    /\ \A c \in itemCalls :
          c.getReply = "err" => c.pc \in {"fetch", "delay", "set"} /\ c.attempts >= 1

\* C26 witness: store.get failed, the fetcher gave 42 at the first attempt,
\* store.set accepted it, and the call returned 42 with fromCache = false.
C26_Witness ==
    \E i \in 1..Len(results) :
        /\ results[i].getReply = "err" /\ results[i].attempts = 1
        /\ results[i].pc = "set" /\ results[i].reply = "ok"
        /\ results[i].res = "ok" /\ results[i].value = 42 /\ ~results[i].fromCache
        /\ results[i].held = 42

\* C29: when two calls for one key, the second made before the first
\* returned, both missed, each has invoked the fetcher (the fetcher has run
\* as often as both attempted together, at least twice); and when both
\* stored their value the store holds, until it drops the key, the value of
\* the call whose store.set completed last.
C29_NoSingleFlight ==
    (/\ Len(results) = 2
     /\ results[1].key = results[2].key /\ results[2].after = 0
     /\ Missed(results[1]) /\ Missed(results[2])
     /\ \A c \in itemCalls : c.key # results[1].key) =>
        /\ results[1].attempts >= 1 /\ results[2].attempts >= 1
        /\ fetches[results[1].key] = results[1].attempts + results[2].attempts
        /\ (/\ results[1].pc = "set" /\ results[1].reply = "ok"
            /\ results[2].pc = "set" /\ results[2].reply = "ok") =>
               /\ results[1].held = results[1].fetched
               /\ results[2].held = results[2].fetched
               /\ cached[results[1].key] \in {0, results[2].fetched}

\* C29 witness: two concurrent calls for one key both missed, one fetched 7
\* and the other 42, each at its first attempt; 42 was stored last and is
\* what the store holds.
C29_Witness ==
    /\ Len(results) = 2 /\ itemCalls = {}
    /\ results[1].key = results[2].key /\ results[2].after = 0
    /\ Missed(results[1]) /\ Missed(results[2])
    /\ results[1].fetched = 7 /\ results[1].reply = "ok" /\ results[1].pc = "set"
    /\ results[2].fetched = 42 /\ results[2].reply = "ok" /\ results[2].pc = "set"
    /\ fetches[results[1].key] = 2
    /\ cached[results[1].key] = 42

\* ------------------------------------------------------- cacheMultipleItems
\* cacheMultipleItems(inputs) over one store: inputs.map starts a cacheItem
\* call per input, each running to its `await store.get`; the calls then
\* proceed as above, and the function resumes after Promise.all when all of
\* them have returned. The continuation of each `await cacheItem(input)` runs
\* in the order the calls return, so `results` above is the order of the
\* results.set and errors.push calls.
InputLists == UNION {[1..n -> Keys] : n \in 0..MaxInputs}

InitCM ==
    /\ MemoryStoreIdle
    /\ MultiTierIdle
    /\ options \in ItemOptions
    /\ WrappersIdle
    /\ createdAt = EmptyTier
    /\ cached = EmptyTier
    /\ itemCalls = {}
    /\ fetches = EmptyTier
    /\ results = <<>>

\* `inputs.map(async (input) => { const result = await cacheItem(input); .. })`
CacheMultipleItems(keys) ==
    /\ multi.pc = "idle"
    /\ inputs' = keys
    /\ itemCalls' = {[NoItem EXCEPT !.id = i, !.key = keys[i], !.pc = "get"] :
                        i \in 1..Len(keys)}
    /\ multi' = [multi EXCEPT !.pc = "all"]
    /\ UNCHANGED <<vars, mtvars, options, cached, createdAt, fetches, results>>
    /\ UNCHANGED <<clock, storeKind, inval, stvars, nsvars>>

\* `results.set(input.key, result.value)` for the calls that succeeded, in the
\* order they returned
resultsMap(rs) ==
    [k \in Keys |->
        LET ok == {i \in 1..Len(rs) : rs[i].key = k /\ rs[i].res = "ok"}
        IN IF ok = {} THEN 0 ELSE rs[CHOOSE i \in ok : \A j \in ok : j <= i].value]

\* `errors.push({key: input.key, error: result.error})` for the calls that
\* failed, in the order they returned
errorsOf(rs) ==
    LET failed == SelectSeq(rs, LAMBDA r : r.res = "err")
    IN [i \in 1..Len(failed) |-> failed[i].key]

\* `if (errors.length > 0)`
aggregateFails_whenSeveral(errors) == Len(errors) > 1
aggregateFails(errors) == Len(errors) > 0

\* cacheMultipleItems resumed after `await Promise.all(promises)`
MultiReturn ==
    /\ multi.pc = "all"
    /\ Len(results) = Len(inputs)
    /\ multi' = IF aggregateFails(errorsOf(results))
                THEN [multi EXCEPT !.pc = "done", !.res = "err",
                                   !.errors = errorsOf(results),
                                   !.successCount = Cardinality(Held(resultsMap(results)))]
                ELSE [multi EXCEPT !.pc = "done", !.res = "ok",
                                   !.value = resultsMap(results)]
    /\ UNCHANGED <<vars, mtvars, options, cached, createdAt, itemCalls, fetches, results>>
    /\ UNCHANGED <<clock, storeKind, inval, inputs, stvars, nsvars>>

NextCM ==
    \/ \E keys \in InputLists : CacheMultipleItems(keys)
    \/ \E c \in itemCalls, outcome \in Outcomes : ItemGet(c, outcome)
    \/ \E c \in itemCalls, fetched \in FetchOutcomes : ItemFetch(c, fetched)
    \/ \E c \in itemCalls : ItemDelay(c)
    \/ \E c \in itemCalls, outcome \in Outcomes : ItemSet(c, outcome)
    \/ MultiReturn

SpecCM == InitCM /\ [][NextCM]_civars

\* the inputs that succeeded, and those that failed, as positions in results
Succeeded == {i \in 1..Len(results) : results[i].res = "ok"}
Failed == {i \in 1..Len(results) : results[i].res = "err"}

\* C27 as stated: cacheMultipleItems succeeds, with one result per input,
\* exactly when every input succeeded; otherwise its failure names every
\* failed key and counts the inputs that succeeded; the key of every input
\* that succeeded and stored its value is in the store, and no failed key is.
C27_AggregateAll ==
    multi.pc = "done" =>
       /\ multi.res = "ok" <=> Failed = {}
       /\ multi.res = "ok" => Cardinality(Held(multi.value)) = Len(inputs)
       /\ multi.res = "err" =>
             /\ \A i \in Failed : \E j \in 1..Len(multi.errors) :
                                      multi.errors[j] = results[i].key
             /\ multi.successCount = Cardinality(Succeeded)
       /\ \A i \in Succeeded :
             (results[i].pc = "set" /\ results[i].reply = "ok") => cached[results[i].key] # 0
       /\ \A i \in Failed : cached[results[i].key] = 0

\* C27 amended: cacheMultipleItems succeeds exactly when every input
\* succeeded, with one result per distinct key, that of the input of the key
\* that returned last; otherwise its failure names the key of every failed
\* input, once per failed input, and counts the distinct keys of the inputs
\* that succeeded. It writes nothing itself: a key an input stored is in the
\* store with the value stored last, and on the empty store a key for which
\* no input reached store.set is absent.
C27_Aggregate ==
    /\ [](multi.pc = "done" =>
            /\ multi.res = "ok" <=> Failed = {}
            /\ multi.res = "ok" =>
                  /\ Held(multi.value) = {inputs[i] : i \in 1..Len(inputs)}
                  /\ \A i \in Succeeded :
                        (\A j \in Succeeded : results[j].key = results[i].key => j <= i)
                            => multi.value[results[i].key] = results[i].value
            /\ multi.res = "err" =>
                  /\ Len(multi.errors) = Cardinality(Failed)
                  /\ \A k \in Keys :
                        Cardinality({j \in 1..Len(multi.errors) : multi.errors[j] = k})
                            = Cardinality({i \in Failed : results[i].key = k})
                  /\ multi.successCount
                        = Cardinality({results[i].key : i \in Succeeded})
            /\ \A i \in 1..Len(results) :
                  (/\ results[i].pc = "set" /\ results[i].reply = "ok"
                   /\ \A j \in 1..Len(results) :
                         (/\ results[j].key = results[i].key
                          /\ results[j].pc = "set" /\ results[j].reply = "ok") => j <= i)
                      => cached[results[i].key] = results[i].fetched
            /\ \A k \in Keys :
                  (\A i \in 1..Len(results) : results[i].key = k => results[i].sets = 0)
                      => cached[k] = 0)
    /\ [][multi' # multi => cached' = cached]_civars

\* C27 witness: of two inputs with different keys one failed to fetch and the
\* other stored 42; the failure names the failed key and counts one success,
\* the stored key is in the store and the failed key is not.
C27_Witness ==
    /\ multi.pc = "done" /\ multi.res = "err"
    /\ Len(inputs) = 2 /\ inputs[1] # inputs[2]
    /\ Len(multi.errors) = 1 /\ multi.successCount = 1
    /\ \E i \in Succeeded : /\ results[i].pc = "set" /\ results[i].reply = "ok"
                            /\ cached[results[i].key] = 42
    /\ cached[multi.errors[1]] = 0

\* ---------------------------------------------------- cacheWithInvalidation
\* cacheWithInvalidation(input & {invalidateAfterMs}) over a store of one of
\* the repository's classes, after one cacheItem call that may have stored a
\* value. createdAt above is when the value was written, which
\* EnhancedMemoryStore keeps in the entry's metadata and InMemoryStore does
\* not keep. The store drops no key while the calls run, and
\* cacheWithInvalidation is called when no other call is running.
StoreKinds == {"EnhancedMemoryStore", "InMemoryStore"}

InvalidateAfter == {0, 1}

InitWI ==
    /\ MemoryStoreIdle
    /\ MultiTierIdle
    /\ options \in ItemOptions
    /\ storeKind \in StoreKinds
    /\ clock = 1
    /\ inval = NoInval
    /\ inputs = <<>>
    /\ multi = NoMulti
    /\ StoresIdle
    /\ createdAt = EmptyTier
    /\ cached = EmptyTier
    /\ itemCalls = {}
    /\ fetches = EmptyTier
    /\ results = <<>>

\* time passes
WiTick ==
    /\ clock < MaxClock
    /\ clock' = clock + 1
    /\ UNCHANGED <<vars, mtvars, options, cached, createdAt, itemCalls, fetches, results>>
    /\ UNCHANGED <<storeKind, inval, inputs, multi, stvars, nsvars>>

\* the cacheItem call made before cacheWithInvalidation
Populate(key) ==
    /\ results = <<>> /\ itemCalls = {} /\ inval.pc = "idle"
    /\ CacheItem(key)

\* cacheWithInvalidation(input) up to `await input.store.getWithMetadata(input.key)`
CacheWithInvalidation(key, invalidateAfterMs) ==
    /\ inval.pc = "idle" /\ itemCalls = {}
    /\ inval' = [NoInval EXCEPT !.pc = "meta", !.key = key, !.after = Len(results),
                                !.invalidateAfterMs = invalidateAfterMs]
    /\ UNCHANGED <<vars, mtvars, options, cached, createdAt, itemCalls, fetches, results>>
    /\ UNCHANGED <<clock, storeKind, inputs, multi, stvars, nsvars>>

\* metadata.createdAt as getWithMetadata returns it: the entry's own for
\* EnhancedMemoryStore, `createdAt: Date.now()` for InMemoryStore
metadataCreatedAt(kind, key) ==
    IF kind = "InMemoryStore" THEN clock ELSE createdAt[key]

\* `await simpleCacheItem(cacheInput)`: the delegated cacheItem call runs to
\* its `await store.get`
delegate(d) ==
    LET id == Len(results) + Cardinality(itemCalls) + 1 IN
    /\ itemCalls' = itemCalls \cup {[NoItem EXCEPT !.id = id, !.key = d.key, !.pc = "get",
                                                   !.after = Len(results)]}
    /\ inval' = [d EXCEPT !.pc = "item", !.item = id]

\* cacheWithInvalidation resumed after `await input.store.getWithMetadata(..)`;
\* it has no try/catch, so a rejected store call rejects it
WiMeta(outcome) ==
    /\ inval.pc = "meta"
    /\ LET present == outcome = "ok" /\ cached[inval.key] # 0
           age == clock - metadataCreatedAt(storeKind, inval.key)
           d == [inval EXCEPT !.metaReply = outcome, !.present = present,
                              !.age = IF present THEN age ELSE 0,
                              !.trueAge = IF present THEN clock - createdAt[inval.key] ELSE 0]
       IN IF outcome = "throw"
          THEN /\ inval' = [d EXCEPT !.pc = "done", !.res = "throw"]
               /\ UNCHANGED itemCalls
          ELSE IF present /\ age > inval.invalidateAfterMs
          THEN /\ inval' = [d EXCEPT !.pc = "delete"]
               /\ UNCHANGED itemCalls
          ELSE delegate(d)
    /\ UNCHANGED <<vars, mtvars, options, cached, createdAt, fetches, results>>
    /\ UNCHANGED <<clock, storeKind, inputs, multi, stvars, nsvars>>

\* cacheWithInvalidation resumed after `await input.store.delete(input.key)`,
\* whose result it does not look at
WiDelete(outcome) ==
    /\ inval.pc = "delete"
    /\ cached' = IF outcome = "ok" THEN tierDelete(cached, inval.key) ELSE cached
    /\ createdAt' = IF outcome = "ok" THEN [createdAt EXCEPT ![inval.key] = 0] ELSE createdAt
    /\ IF outcome = "throw"
       THEN /\ inval' = [inval EXCEPT !.pc = "done", !.res = "throw", !.deleteReply = outcome]
            /\ UNCHANGED itemCalls
       ELSE delegate([inval EXCEPT !.deleteReply = outcome])
    /\ UNCHANGED <<vars, mtvars, options, fetches, results>>
    /\ UNCHANGED <<clock, storeKind, inputs, multi, stvars, nsvars>>

\* the result of the delegated call
Delegated == results[CHOOSE i \in 1..Len(results) : results[i].id = inval.item]

\* cacheWithInvalidation resumed after `await simpleCacheItem(cacheInput)`
WiReturn ==
    /\ inval.pc = "item"
    /\ \E i \in 1..Len(results) : results[i].id = inval.item
    /\ inval' = [inval EXCEPT !.pc = "done", !.res = Delegated.res, !.value = Delegated.value]
    /\ UNCHANGED <<vars, mtvars, options, cached, createdAt, itemCalls, fetches, results>>
    /\ UNCHANGED <<clock, storeKind, inputs, multi, stvars, nsvars>>

NextWI ==
    \/ WiTick
    \/ \E key \in Keys : Populate(key)
    \/ \E key \in Keys, ms \in InvalidateAfter : CacheWithInvalidation(key, ms)
    \/ \E outcome \in Outcomes : WiMeta(outcome)
    \/ \E outcome \in Outcomes : WiDelete(outcome)
    \/ \E c \in itemCalls, outcome \in Outcomes : ItemGet(c, outcome)
    \/ \E c \in itemCalls, fetched \in FetchOutcomes : ItemFetch(c, fetched)
    \/ \E c \in itemCalls : ItemDelay(c)
    \/ \E c \in itemCalls, outcome \in Outcomes : ItemSet(c, outcome)
    \/ WiReturn

SpecWI == InitWI /\ [][NextWI]_civars

\* C28: when cacheWithInvalidation, called after the earlier call returned,
\* found the key stored: if the value was written more than invalidateAfterMs
\* before, the key is deleted before delegating, the delegated cacheItem
\* misses and invokes the fetcher, and a value fetched at the first attempt
\* and stored is what is returned and what the store holds; otherwise
\* nothing is deleted and the delegated call returns the stored value
\* without invoking the fetcher.
C28_Invalidation ==
    (/\ inval.pc = "done" /\ inval.res # "throw" /\ inval.after = 1
     /\ inval.metaReply = "ok" /\ inval.present) =>
        IF inval.trueAge > inval.invalidateAfterMs
        THEN /\ inval.deleteReply # "none"
             /\ (inval.deleteReply = "ok" /\ Delegated.getReply = "ok") =>
                   /\ Missed(Delegated) /\ Delegated.attempts >= 1
                   /\ (/\ Delegated.attempts = 1 /\ Delegated.fetched # 0
                       /\ Delegated.reply = "ok") =>
                          /\ inval.res = "ok" /\ inval.value = Delegated.fetched
                          /\ cached[inval.key] = Delegated.fetched
        ELSE /\ inval.deleteReply = "none"
             /\ Delegated.getReply = "ok" =>
                   /\ Delegated.fromCache /\ Delegated.attempts = 0
                   /\ inval.res = "ok" /\ inval.value = Delegated.got

\* ------------------------------------------------------------ cleanup claim
\* C30: in every state the store can be in, what cleanup() leaves has no
\* entry whose expiresAt has passed, in the map or in the recency structure;
\* it removed only such entries; every other entry is unchanged and keeps its
\* place in the recency order; the number returned is the number of entries
\* removed, and expirations has grown by it.
C30_CleanupSweeps ==
    LET st == sweep(Store, sweepable(map, now))
        removed == DOMAIN map \ DOMAIN st.map
    IN /\ DOMAIN st.map \subseteq DOMAIN map
       /\ \A k \in DOMAIN st.map :
             /\ ~(st.map[k].expiresAt # 0 /\ st.map[k].expiresAt <= now)
             /\ st.map[k] = map[k]
       /\ \A k \in removed :
             /\ map[k].expiresAt # 0 /\ map[k].expiresAt <= now
             /\ k \notin SeqToSet(st.lru) /\ k \notin st.keyToNode
       /\ st.lru = SelectSeq(lru, LAMBDA x : x \notin removed)
       /\ st.keyToNode = keyToNode \ removed
       /\ cleanupReturn = Cardinality(removed)
       /\ st.stats.expirations = stats.expirations + Cardinality(removed)

\* C30 witness: after two set() calls with a TTL and one cleanup() the two
\* entries are gone and expirations is 2 (any other call expires one key).
C30_Witness ==
    /\ calls = 3 /\ map = << >> /\ lru = <<>> /\ keyToNode = {}
    /\ stats.expirations = 2

\* ------------------------------------------------------------------ keys()
\* keys(pattern): Array.from(this.map.keys()), filtered by the pattern when one
\* is given. The pattern is represented by the set of keys its regular
\* expression tests true on; the order of the array (the Map's insertion
\* order) is not represented, the result is the set of its elements.
keysReturn(hasPattern, matching) ==
    IF ~hasPattern THEN DOMAIN map ELSE {k \in DOMAIN map : k \in matching}

\* the keys whose entry has not expired at the time of the call
LiveKeys == {k \in DOMAIN map : ~isExpired(map[k], now)}

\* C31 as stated: keys() lists exactly the live keys: a key whose entry has
\* expired by the time of the call is not in the list, whether or not a lazy
\* access or a cleanup sweep has removed it already, and every live key is.
C31_KeysLive == keysReturn(FALSE, {}) = LiveKeys

\* ------------------------------------------- the stores, with their callers
\* The memory store with a record of its last call, its ping(), an
\* InMemoryStore, and clear() of a MultiTierStore. The calls of all of them
\* share one budget.
stall == <<vars, mtvars, civars>>

PingKey == 0

\* 'test': JSON.stringify gives 6 characters, as it does for this number
PingValue == 100000

Budget == calls + ops < MaxCalls

\* a call of the memory store's method op on key, with the result it returns
Logged(op, key, ok, value) ==
    /\ Budget
    /\ calls' = calls + 1
    /\ opLog' = [op |-> op, key |-> key, ok |-> ok, value |-> value,
                 again |-> opLog.op = op,
                 first |-> IF opLog.op = op THEN opLog.first ELSE DOMAIN map,
                 held |-> DOMAIN map, live |-> LiveKeys, before |-> stats]
    /\ UNCHANGED <<mtvars, options, cached, itemCalls, fetches, results, createdAt>>
    /\ UNCHANGED <<clock, storeKind, inval, inputs, multi, imMap, nsvars>>

OpCall(op, key, ok, value) == Logged(op, key, ok, value) /\ UNCHANGED ping

\* clear(): the result
clearReturn_emptyFails(st) == IF DOMAIN st.map = {} THEN "err" ELSE "ok"
clearReturn(st) == "ok"

\* the entries of the caller's keys, and their recency order
UserMap(m) == [k \in (DOMAIN m) \ {PingKey} |-> m[k]]

UserLru(l) == SelectSeq(l, LAMBDA x : x # PingKey)

\* ping(): `await this.set(testKey, 'test')`, up to the first await
Ping ==
    LET p == setCall(PingKey, PingValue, 0)
        q == [pc |-> "delete", set |-> p, calls |-> calls + 1, quiet |-> pending = {},
              before |-> [map |-> UserMap(map), lru |-> UserLru(lru), stats |-> stats],
              res |-> "none"]
    IN /\ ping.pc \in {"idle", "done"}
       /\ Logged("ping", PingKey, TRUE, 0)
       /\ IF ~overBudget(p)
          THEN /\ Install(storeEntry(Store, p))
               /\ touchOrder' = Touch(touchOrder, PingKey)
               /\ ping' = q
               /\ UNCHANGED track
          ELSE IF aboveTarget(Store, calculateSize(PingValue))
          THEN LET r == evictOp(Store, EvictBatch) IN
               /\ Install(r.st)
               /\ Evicted(r.evictedKeys)
               /\ ping' = [q EXCEPT !.pc = "evicting", !.set.lastLen = Len(r.evictedKeys)]
          ELSE /\ ping' = [q EXCEPT !.pc = "store"]
               /\ UNCHANGED <<map, lru, keyToNode, stats, track, touchOrder>>
       /\ UNCHANGED <<now, maxMemoryBytes, pending>>

\* what a step of ping() after its first leaves alone
PingResumed ==
    /\ UNCHANGED <<now, maxMemoryBytes, pending, calls, mtvars>>
    /\ UNCHANGED <<options, cached, itemCalls, fetches, results, createdAt>>
    /\ UNCHANGED <<clock, storeKind, inval, inputs, multi, opLog, imMap, nsvars>>

\* ping(): evictToMakeSpace() resumed after `await this.evict(10)`
PingEvictStep ==
    /\ ping.pc = "evicting"
    /\ PingResumed
    /\ IF ping.set.lastLen # 0 /\ aboveTarget(Store, calculateSize(PingValue))
       THEN LET r == evictOp(Store, EvictBatch) IN
            /\ Install(r.st)
            /\ Evicted(r.evictedKeys)
            /\ ping' = [ping EXCEPT !.set.lastLen = Len(r.evictedKeys)]
       ELSE /\ ping' = [ping EXCEPT !.pc = "store"]
            /\ UNCHANGED <<map, lru, keyToNode, stats, track, touchOrder>>

\* ping(): set() resumed after `await this.evictToMakeSpace(sizeBytes)`
PingStore ==
    /\ ping.pc = "store"
    /\ PingResumed
    /\ Install(storeEntry(Store, ping.set))
    /\ touchOrder' = Touch(touchOrder, PingKey)
    /\ ping' = [ping EXCEPT !.pc = "delete"]
    /\ UNCHANGED track

\* ping() resumed after `await this.set(..)`: delete(testKey), and the return
\* that follows `await this.delete(testKey)`
PingDelete ==
    /\ ping.pc = "delete"
    /\ PingResumed
    /\ IF PingKey \notin DOMAIN map
       THEN UNCHANGED <<map, lru, keyToNode, stats, touchOrder>>
       ELSE LET st1 == dropEntry(Store, PingKey) IN
            /\ Install([st1 EXCEPT !.stats.keyCount = @ - 1,
                                   !.stats.memoryUsageBytes = @ - map[PingKey].sizeBytes])
            /\ touchOrder' = Restrict(touchOrder, DOMAIN map')
    /\ ping' = [ping EXCEPT !.pc = "done", !.res = "ok"]
    /\ UNCHANGED track

\* a call of one of the InMemoryStore's methods
ImCall ==
    /\ Budget
    /\ calls' = calls + 1
    /\ UNCHANGED <<now, maxMemoryBytes, map, lru, keyToNode, stats, pending, track, touchOrder>>
    /\ UNCHANGED <<mtvars, options, cached, itemCalls, fetches, results, createdAt>>
    /\ UNCHANGED <<clock, storeKind, inval, inputs, multi, opLog, ping, nsvars>>

\* InMemoryStore.set(): TRUE when the call returns the failure
imSetFails(m, key, overwrite) == m[key] # 0 /\ ~overwrite

ImSet(key, value, overwrite) ==
    /\ ImCall
    /\ imMap' = IF imSetFails(imMap, key, overwrite) THEN imMap ELSE tierSet(imMap, key, value)

ImDelete(key) ==
    /\ ImCall
    /\ imMap' = tierDelete(imMap, key)

\* InMemoryStore.clear(): the map it leaves, and the result
imClearOp(m) == EmptyTier

imClearReturn(m) == "ok"

ImClear ==
    /\ ImCall
    /\ imMap' = imClearOp(imMap)

\* the two tiers and the queue of the orchestrator
Tiers == [l1 |-> l1Cache, l2 |-> l2Cache, queue |-> writeBehindQueue]

\* MultiTierStore.clear(): what the tiers and the queue hold when the call
\* returns, and its result; o1 and o2 are the outcomes of the tiers' clear().
\* A tier that throws rejects Promise.all: the queue is then left as it is.
mtClearOp(T, o1, o2) ==
    [l1 |-> IF o1 = "ok" THEN EmptyTier ELSE T.l1,
     l2 |-> IF o2 = "ok" THEN EmptyTier ELSE T.l2,
     queue |-> IF "throw" \in {o1, o2} THEN T.queue ELSE EmptyTier,
     res |-> IF o1 = "ok" /\ o2 = "ok" THEN "ok" ELSE "err"]

\* MultiTierStore.clear()
MtClear ==
    /\ Start(newCall("clear", 0, 0, "tiers.clear"))
    /\ UNCHANGED <<l1Cache, l2Cache, writeBehindQueue, writeBehindTimer, hist>>

\* clear() resumed after `await Promise.all([l1Cache.clear(), l2Cache.clear()])`
ClearTiers(c, o1, o2) ==
    /\ Awaiting(c, "clear", "tiers.clear")
    /\ LET r == mtClearOp(Tiers, o1, o2) IN
       /\ l1Cache' = r.l1
       /\ l2Cache' = r.l2
       /\ writeBehindQueue' = r.queue
       /\ Return(c, IF o1 # "ok" THEN o1 ELSE o2, r.res, 0)
    /\ hist' = NoHist
    /\ UNCHANGED writeBehindTimer

\* an empty memory store with or without a budget, an empty InMemoryStore,
\* and an orchestrator constructed over empty tiers
InitST ==
    /\ CacheItemIdle
    /\ now = 1
    /\ maxMemoryBytes \in MemoryBudgets
    /\ map = [k \in {} |-> 0]
    /\ lru = <<>>
    /\ keyToNode = {}
    /\ stats = [keyCount |-> 0, memoryUsageBytes |-> 0, hits |-> 0, misses |-> 0,
                evictions |-> 0, expirations |-> 0]
    /\ pending = {}
    /\ calls = 0
    /\ track = [k \in Keys |-> NoTrack]
    /\ touchOrder = <<>>
    /\ config \in Configs
    /\ l1Cache = EmptyTier
    /\ l2Cache = EmptyTier
    /\ writeBehindQueue = EmptyTier
    /\ writeBehindTimer = config.writeBehind
    /\ inflight = {}
    /\ ops = 0
    /\ last = NoCall
    /\ hist = NoHist

NextST ==
    \/ Tick
    \/ \E key \in Keys, refreshTtl \in BOOLEAN :
          OpCall("get", key, TRUE, getReturn(key)) /\ Get(key, refreshTtl)
    \/ \E key \in Keys, value \in Values, ttlMs \in TtlMs, overwrite \in BOOLEAN :
          OpCall("set", key, ~setFails(key, overwrite), 0) /\ Set(key, value, ttlMs, overwrite)
    \/ \E p \in pending : SetEvictStep(p)
    \/ \E p \in pending : SetStore(p)
    \/ \E key \in Keys : OpCall("has", key, TRUE, 0) /\ Has(key)
    \/ \E key \in Keys : OpCall("delete", key, TRUE, 0) /\ Delete(key)
    \/ OpCall("clear", 0, clearReturn(Store) = "ok", 0) /\ Clear
    \/ \E key \in Keys : OpCall("getWithMetadata", key, TRUE, 0) /\ GetWithMetadata(key)
    \/ \E key \in Keys, ttlMs \in TtlMs : OpCall("updateTtl", key, TRUE, 0) /\ UpdateTtl(key, ttlMs)
    \/ OpCall("cleanup", 0, TRUE, cleanupReturn) /\ Cleanup
    \/ \E count \in EvictCounts : OpCall("evict", 0, TRUE, 0) /\ Evict(count)
    \/ Ping
    \/ PingEvictStep
    \/ PingStore
    \/ PingDelete

\* the memory store, call by call, with its ping()
SpecST == InitST /\ [][NextST]_stall

NextCL ==
    \/ Tick
    \/ \E key \in Keys, refreshTtl \in BOOLEAN :
          OpCall("get", key, TRUE, getReturn(key)) /\ Get(key, refreshTtl)
    \/ \E key \in Keys, value \in Values, ttlMs \in TtlMs, overwrite \in BOOLEAN :
          OpCall("set", key, ~setFails(key, overwrite), 0) /\ Set(key, value, ttlMs, overwrite)
    \/ \E p \in pending : SetEvictStep(p)
    \/ \E p \in pending : SetStore(p)
    \/ OpCall("clear", 0, clearReturn(Store) = "ok", 0) /\ Clear
    \/ \E key \in Keys, value \in Values, overwrite \in BOOLEAN : ImSet(key, value, overwrite)
    \/ \E key \in Keys : ImDelete(key)
    \/ ImClear
    \/ Budget /\ \E key \in Keys, value \in Values : MtSet(key, value)
    \/ \E c \in inflight, outcome \in Outcomes : SetL1(c, outcome)
    \/ \E c \in inflight, outcome \in Outcomes : SetL2(c, outcome)
    \/ Budget /\ MtClear
    \/ \E c \in inflight, o1, o2 \in Outcomes : ClearTiers(c, o1, o2)

\* the orchestrator writes through or queues its writes
InitCL ==
    /\ InitST
    /\ config.populateL1OnL2Hit
    /\ config.writeThrough # config.writeBehind

\* the three kinds of store, with set() and clear()
SpecCL == InitCL /\ [][NextCL]_stall

\* the step is a call of the memory store's method op
Calls(op) == calls' = calls + 1 /\ opLog'.op = op

\* C32: clear() removes every entry and every recency node and sets keyCount
\* and memoryUsageBytes to zero, and leaves the cumulative counters hits,
\* misses, evictions and expirations as they were before the call.
C32_ClearFrame ==
    [][Calls("clear") =>
          /\ DOMAIN map' = {}
          /\ lru' = <<>>
          /\ keyToNode' = {}
          /\ stats'.keyCount = 0
          /\ stats'.memoryUsageBytes = 0
          /\ stats'.hits = stats.hits
          /\ stats'.misses = stats.misses
          /\ stats'.evictions = stats.evictions
          /\ stats'.expirations = stats.expirations
      ]_stall

\* C32 witness: the last call was a clear() of a store that held an entry and
\* had counted a hit; the store is empty and still counts that hit.
C32_Witness ==
    /\ opLog.op = "clear"
    /\ opLog.held # {}
    /\ opLog.before.hits > 0
    /\ opLog.before.keyCount > 0
    /\ DOMAIN map = {}
    /\ stats.keyCount = 0
    /\ stats.hits = opLog.before.hits

\* C33: clear() is idempotent on every store: from any reachable state of an
\* EnhancedMemoryStore, of an InMemoryStore and of a MultiTierStore over tiers
\* whose clear() succeeds, as theirs does, two calls of clear() in a row leave
\* the state that one call leaves, and both return success.
C33_ClearIdempotent ==
    LET once == clearOp(Store)
        twice == clearOp(once)
        imOnce == imClearOp(imMap)
        imTwice == imClearOp(imOnce)
        mtOnce == mtClearOp(Tiers, "ok", "ok")
        mtTwice == mtClearOp([l1 |-> mtOnce.l1, l2 |-> mtOnce.l2, queue |-> mtOnce.queue],
                             "ok", "ok")
    IN /\ twice = once
       /\ clearReturn(Store) = "ok" /\ clearReturn(once) = "ok"
       /\ imTwice = imOnce
       /\ imClearReturn(imMap) = "ok" /\ imClearReturn(imOnce) = "ok"
       /\ mtTwice = mtOnce
       /\ mtOnce.res = "ok" /\ mtTwice.res = "ok"

\* C33 witness: the memory store held an entry and clear() was called twice in
\* a row; the second call found the store empty, succeeded and left it empty.
C33_Witness ==
    /\ opLog.op = "clear"
    /\ opLog.again
    /\ opLog.first # {}
    /\ opLog.held = {}
    /\ opLog.ok
    /\ DOMAIN map = {}
    /\ lru = <<>>

\* C34: every get() changes exactly one of the counters hits and misses, by
\* one: hits when it returns a stored value (the key is present and has not
\* expired), misses when the key is absent or expired; and getStats() reports
\* hitRatio = hits / (hits + misses) of the current counters, 0 when there was
\* no access.
C34_HitsAndMisses ==
    /\ [](LET r == getStats.hitRatio IN
          /\ r[2] > 0
          /\ r[1] * (stats.hits + stats.misses) = stats.hits * r[2]
          /\ (stats.hits + stats.misses = 0) => r[1] = 0)
    /\ [][Calls("get") =>
             LET k == opLog'.key IN
             IF k \in LiveKeys
             THEN /\ stats'.hits = stats.hits + 1
                  /\ stats'.misses = stats.misses
                  /\ opLog'.value = map[k].value
             ELSE /\ stats'.misses = stats.misses + 1
                  /\ stats'.hits = stats.hits
                  /\ opLog'.value = 0
         ]_stall

\* C34 witness: a get() that hit and a get() that found the entry expired have
\* been counted, and getStats() reports the ratio 1/2.
C34_Witness ==
    /\ opLog.op = "get"
    /\ opLog.held # {} /\ opLog.live = {}
    /\ stats.hits = 1
    /\ stats.misses = 1
    /\ stats.expirations = 1
    /\ getStats.hitRatio = <<1, 2>>

\* C38 as stated: ping() is a pure liveness probe. When ping() has returned,
\* having started with no set() suspended and with no other call made since,
\* the store holds the caller's keys it held before, with the same values,
\* TTLs and relative recency order, and hits, misses, evictions and
\* expirations are what they were, with or without a memory budget.
C38_PingPure ==
    (ping.pc = "done" /\ ping.quiet /\ calls = ping.calls) =>
        /\ UserMap(map) = ping.before.map
        /\ UserLru(lru) = ping.before.lru
        /\ stats.hits = ping.before.stats.hits
        /\ stats.misses = ping.before.stats.misses
        /\ stats.evictions = ping.before.stats.evictions
        /\ stats.expirations = ping.before.stats.expirations

\* the step is one of set(key, ..): the call up to its return or its first
\* await, or the call resumed
SetStep(key) ==
    \/ Call /\ \E value \in Values, ttlMs \in TtlMs, overwrite \in BOOLEAN :
          Set(key, value, ttlMs, overwrite)
    \/ \E p \in pending : p.key = key /\ (SetEvictStep(p) \/ SetStore(p))

\* the step is the one in which set(key, ..) stores the entry and returns success
SetSucceeds(key) ==
    \/ Call /\ \E value \in Values, ttlMs \in TtlMs, overwrite \in BOOLEAN :
          /\ ~setFails(key, overwrite)
          /\ ~overBudget(setCall(key, value, ttlMs))
          /\ Set(key, value, ttlMs, overwrite)
    \/ \E p \in pending : p.key = key /\ SetStore(p)

\* C37 as stated: with maxMemoryBytes configured, after every successful set()
\* the accounted memoryUsageBytes is at most maxMemoryBytes, whatever the size
\* of the value and the prior content of the store; the key just set is
\* present, and what set() evicted are the least recently used entries.
C37_WithinBudget ==
    [][\A key \in Keys :
          /\ (maxMemoryBytes # 0 /\ SetSucceeds(key)) =>
                /\ stats'.memoryUsageBytes <= maxMemoryBytes
                /\ key \in DOMAIN map'
          /\ (maxMemoryBytes # 0 /\ SetStep(key)) =>
                LET removed == (DOMAIN map) \ (DOMAIN map') IN
                removed = SeqToSet(SubSeq(touchOrder, 1, Cardinality(removed)))
      ]_vars

\* --------------------------------------------------------- NamespacedStore
\* Wrappers with the namespaces of Namespaces over one InMemoryStore, whose
\* Map is nsMap: a function from the keys present to their values.

\* k(key): `${this.ns}:${key}`
k(ns, key) == ns \o <<":">> \o key

startsWith(str, prefix) ==
    Len(str) >= Len(prefix) /\ SubSeq(str, 1, Len(prefix)) = prefix

\* unk(namespacedKey)
unk(ns, namespacedKey) ==
    LET prefix == ns \o <<":">> IN
    IF startsWith(namespacedKey, prefix)
    THEN SubSeq(namespacedKey, Len(prefix) + 1, Len(namespacedKey))
    ELSE namespacedKey

\* pattern.replace(/\*/g, '.*'): the literal pieces of the pattern between
\* its stars
RECURSIVE pieces(_)
pieces(pattern) ==
    LET stars == {i \in 1..Len(pattern) : pattern[i] = "*"} IN
    IF stars = {} THEN <<pattern>>
    ELSE LET i == CHOOSE j \in stars : \A h \in stars : j <= h IN
         <<SubSeq(pattern, 1, i - 1)>> \o pieces(SubSeq(pattern, i + 1, Len(pattern)))

\* regex.test(str) for the expression made of these pieces with `.*` between
\* them: the expression is not anchored, so the pieces may occur anywhere in
\* str, in this order
RECURSIVE regexTest(_, _)
regexTest(ps, str) ==
    IF ps = <<>> THEN TRUE
    ELSE LET piece == Head(ps)
             at == {i \in 1..(Len(str) - Len(piece) + 1) :
                       SubSeq(str, i, i + Len(piece) - 1) = piece}
         IN /\ at # {}
            /\ LET i == CHOOSE j \in at : \A h \in at : j <= h IN
               regexTest(Tail(ps), SubSeq(str, i + Len(piece), Len(str)))

\* InMemoryStore.keys(pattern); the empty pattern is `!pattern`
innerKeys(m, pattern) ==
    IF pattern = <<>> THEN DOMAIN m
    ELSE {key \in DOMAIN m : regexTest(pieces(pattern), key)}

\* InMemoryStore.get(key): the value (0: undefined)
innerGet(m, key) == IF key \in DOMAIN m THEN m[key] ELSE 0

\* the patterns keys() is called with
NsPatterns == {<<>>, <<"x">>, <<"*">>}

\* NamespacedStore: what get, has, keys and mget return
nsGet(ns, key) == innerGet(nsMap, k(ns, key))

nsHas(ns, key) == k(ns, key) \in DOMAIN nsMap

nsKeys(ns, pattern) ==
    LET namespacedPattern == IF pattern # <<>> THEN ns \o <<":">> \o pattern
                             ELSE ns \o <<":", "*">>
    IN {unk(ns, key) : key \in innerKeys(nsMap, namespacedPattern)}

\* mget(keys): the Map returned, as the set of its entries
nsMget(ns, keys) ==
    {<<unk(ns, k(ns, key)), nsGet(ns, key)>> : key \in {x \in keys : nsGet(ns, x) # 0}}

\* what a call of a wrapper leaves alone
NsFrame ==
    /\ UNCHANGED <<vars, mtvars, options, cached, itemCalls, fetches, results, createdAt>>
    /\ UNCHANGED <<clock, storeKind, inval, inputs, multi, stvars>>

Written(ns, key, value) == [nsLog EXCEPT ![ns][key] = value]

\* set(key, value, options)
NsSet(ns, key, value, overwrite) ==
    /\ NsFrame
    /\ IF k(ns, key) \in DOMAIN nsMap /\ ~overwrite
       THEN UNCHANGED <<nsMap, nsLog>>
       ELSE /\ nsMap' = PutKey(nsMap, k(ns, key), value)
            /\ nsLog' = Written(ns, key, value)
    /\ UNCHANGED nsCall

\* delete(key)
NsDelete(ns, key) ==
    /\ NsFrame
    /\ nsMap' = RemoveKey(nsMap, k(ns, key))
    /\ nsLog' = Written(ns, key, 0)
    /\ UNCHANGED nsCall

\* clear(): this.inner.clear()
nsClearOp(m, ns) == [key \in {} |-> 0]

NsClear(ns) ==
    /\ NsFrame
    /\ nsMap' = nsClearOp(nsMap, ns)
    /\ nsLog' = [nsLog EXCEPT ![ns] = [key \in NsKeys |-> 0]]
    /\ UNCHANGED nsCall

\* the operations of mset() and the keys of mdel()
NsBatches ==
    UNION {[1..n -> NsKeys \X Values] : n \in 1..MaxInputs}

\* InMemoryStore.mset / mdel: the loop body for the item at position i
batchItem(c, i) ==
    LET key == c.items[i][1] IN
    IF c.pc = "mset"
    THEN /\ nsMap' = PutKey(nsMap, k(c.ns, key), c.items[i][2])
         /\ nsLog' = Written(c.ns, key, c.items[i][2])
    ELSE /\ nsMap' = RemoveKey(nsMap, k(c.ns, key))
         /\ nsLog' = Written(c.ns, key, 0)

\* mset(operations) and mdel(keys), up to the first await of the inner loop
NsBatch(op, ns, items) ==
    LET c == [pc |-> op, ns |-> ns, items |-> items, i |-> 1] IN
    /\ NsFrame
    /\ nsCall.pc = "idle"
    /\ batchItem(c, 1)
    /\ nsCall' = c

\* the inner loop resumed after `await this.set(..)` or `await this.delete(..)`
NsBatchStep ==
    /\ NsFrame
    /\ nsCall.pc # "idle"
    /\ IF nsCall.i < Len(nsCall.items)
       THEN /\ batchItem(nsCall, nsCall.i + 1)
            /\ nsCall' = [nsCall EXCEPT !.i = @ + 1]
       ELSE /\ nsCall' = [pc |-> "idle"]
            /\ UNCHANGED <<nsMap, nsLog>>

\* mset(operations)
NsMset(ns, operations) == NsBatch("mset", ns, operations)

\* mdel(keys)
NsMdel(ns, keys) == NsBatch("mdel", ns, keys)

\* wrappers over an empty InMemoryStore
InitNS == Init /\ maxMemoryBytes = 0

NextNS ==
    \/ \E ns \in Namespaces, key \in NsKeys, value \in Values, overwrite \in BOOLEAN :
          NsSet(ns, key, value, overwrite)
    \/ \E ns \in Namespaces, key \in NsKeys : NsDelete(ns, key)
    \/ \E ns \in Namespaces : NsClear(ns)
    \/ \E ns \in Namespaces, operations \in NsBatches : NsMset(ns, operations)
    \/ \E ns \in Namespaces, keys \in NsBatches : NsMdel(ns, keys)
    \/ NsBatchStep

SpecNS == InitNS /\ [][NextNS]_stall

\* what has been written through the wrapper ns and not deleted through it
Own(ns) == {key \in NsKeys : nsLog[ns][key] # 0}

\* C35 as stated: namespace isolation. Whatever is done through the other
\* wrappers, each wrapper reads exactly what was written through it: get, has
\* and mget return its own entries, keys() lists exactly its own keys without
\* the prefix, and a key written through A is stored in the inner store as
\* A:key.
C35_Isolation ==
    \A ns \in Namespaces :
        /\ \A key \in NsKeys :
              /\ nsGet(ns, key) = nsLog[ns][key]
              /\ nsHas(ns, key) = (key \in Own(ns))
              /\ key \in Own(ns) => innerGet(nsMap, ns \o <<":">> \o key) = nsLog[ns][key]
        /\ nsMget(ns, NsKeys) = {<<key, nsLog[ns][key]>> : key \in Own(ns)}
        /\ nsKeys(ns, <<>>) = Own(ns)

\* C36 as stated: every return of cacheItem, on every path (cache hit, fresh
\* fetch, default-value fallback, FetchFailed failure, StoreFailed failure),
\* carries the operation metadata: the elapsed time, the cache-hit flag, the
\* retry-attempted flag and the retry count.
C36_MetadataOnEveryReturn ==
    \A i \in 1..Len(results) : Metadata \subseteq results[i].carries

\* C39 as stated: a write leaves the write-behind queue only after the durable
\* tier has accepted that same value: when the batch write of a flush fails
\* (mset throws or returns a failure result) the batch stays queued and the
\* flush task keeps running, and an entry re-queued with a newer value while
\* the flush was in flight is not removed when that flush completes.
C39_QueuedUntilAccepted ==
    [][(last'.pc = "l2.mset" /\ last'.res # "none") =>
          /\ \A key \in Keys :
                 (writeBehindQueue[key] # 0 /\ writeBehindQueue'[key] = 0) =>
                     /\ last'.reply = "ok"
                     /\ last'.batch[key] = writeBehindQueue[key]
                     /\ l2Cache'[key] = writeBehindQueue[key]
          /\ last'.reply # "ok" =>
                 /\ writeBehindQueue' = writeBehindQueue
                 /\ last'.op = "flush" => writeBehindTimer' = writeBehindTimer
    ]_mtvars

\* MultiTierStore.get(key) run against the tiers as they stand, both tiers
\* answering: the fast tier's value if it holds one, else the durable tier's
\* (0 is undefined)
mtGetValue(key) ==
    IF l1Hit("ok", l1Cache[key]) THEN l1Cache[key] ELSE l2Cache[key]

\* MultiTierStore.has(key) run against the tiers as they stand, both tiers
\* answering: true from the fast tier, else the durable tier's answer
mtHas(key) ==
    IF l1Cache[key] # 0 THEN TRUE ELSE l2Cache[key] # 0

\* C40 as stated: after delete(k) has returned a success result, and with no
\* set of k afterwards, get(k) and has(k) on the orchestrator report k as
\* absent, for every outcome of the two tiers' own delete calls and every
\* write policy.
C40_DeletedIsAbsent ==
    (Returned("delete") /\ last.res = "ok") =>
        /\ mtGetValue(last.key) = 0
        /\ ~mtHas(last.key)
====
